---- MODULE Spec2Model ----
(***************************************************************************)
(* Model of the resume matching-and-scoring engine: the NLP service        *)
(* (services/nlp.go), the scorer (services/scorer.go), the parser          *)
(* (services/parser.go), the text utilities (utils) and the Resume model.  *)
(* Go strings are TLA+ strings, float64 values are exact rationals         *)
(* <<numerator, denominator>>, regular expressions are matched leftmost-   *)
(* first as package regexp does.                                           *)
(***************************************************************************)
EXTENDS Integers, Sequences, FiniteSets, TLC

VARIABLES s1, s2, similarity,
          resumeSkills, jobSkills, skillResult,
          resume, jobDesc, now, result,
          args, ret, uploads, handler, pc

vars == <<s1, s2, similarity, resumeSkills, jobSkills, skillResult,
          resume, jobDesc, now, result, args, ret, uploads, handler, pc>>

(***************************************************************************)
(* Exact rational arithmetic standing for float64.                         *)
(***************************************************************************)
Abs(x) == IF x < 0 THEN -x ELSE x

RECURSIVE GCD(_, _)
GCD(a, b) == IF b = 0 THEN a ELSE GCD(b, a % b)

Rat(n, d) ==
    LET g == GCD(Abs(n), Abs(d))
        sg == IF d < 0 THEN -1 ELSE 1
    IN  <<(sg * n) \div g, (sg * d) \div g>>

RInt(n) == <<n, 1>>
RAdd(a, b) == Rat(a[1] * b[2] + b[1] * a[2], a[2] * b[2])
RSub(a, b) == Rat(a[1] * b[2] - b[1] * a[2], a[2] * b[2])
RMul(a, b) ==
    LET g1 == GCD(Abs(a[1]), b[2])
        g2 == GCD(Abs(b[1]), a[2])
    IN  Rat((a[1] \div g1) * (b[1] \div g2), (a[2] \div g2) * (b[2] \div g1))
RDiv(a, b) == RMul(a, IF b[1] < 0 THEN <<-b[2], -b[1]>> ELSE <<b[2], b[1]>>)
RLt(a, b) == a[1] * b[2] < b[1] * a[2]
RLe(a, b) == a[1] * b[2] <= b[1] * a[2]
RGt(a, b) == RLt(b, a)
RGe(a, b) == RLe(b, a)

(***************************************************************************)
(* Go string helpers (package strings).                                    *)
(***************************************************************************)
CharAt(s, i) == SubSeq(s, i, i)

UpperChars == "ABCDEFGHIJKLMNOPQRSTUVWXYZ"
LowerChars == "abcdefghijklmnopqrstuvwxyz"

UpperSet == {CharAt(UpperChars, k) : k \in 1..Len(UpperChars)}

ToLowerChar(c) ==
    IF c \in UpperSet
    THEN CharAt(LowerChars, CHOOSE k \in 1..Len(UpperChars) : CharAt(UpperChars, k) = c)
    ELSE c

\* strings.ToLower, computed by halves.
RECURSIVE ToLower(_)
ToLower(s) ==
    IF Len(s) = 0 THEN ""
    ELSE IF Len(s) = 1 THEN ToLowerChar(s)
    ELSE LET h == Len(s) \div 2
         IN  ToLower(SubSeq(s, 1, h)) \o ToLower(SubSeq(s, h + 1, Len(s)))

Contains(s, sub) ==
    \E k \in 1..(Len(s) - Len(sub) + 1) : SubSeq(s, k, k + Len(sub) - 1) = sub

IsSpaceChar(c) == c \in {" ", "\t", "\n", "\r"}

RECURSIVE TrimLeft(_)
TrimLeft(s) == IF Len(s) > 0 /\ IsSpaceChar(CharAt(s, 1)) THEN TrimLeft(SubSeq(s, 2, Len(s))) ELSE s

RECURSIVE TrimRight(_)
TrimRight(s) ==
    IF Len(s) > 0 /\ IsSpaceChar(CharAt(s, Len(s))) THEN TrimRight(SubSeq(s, 1, Len(s) - 1)) ELSE s

TrimSpace(s) == TrimRight(TrimLeft(s))

SeqToSet(q) == {q[k] : k \in 1..Len(q)}

\* unicode.IsLetter and unicode.IsNumber on the characters the inputs use.
LetterSet == UpperSet \cup {CharAt(LowerChars, k) : k \in 1..Len(LowerChars)}
DigitChars == "0123456789"
DigitSet == {CharAt(DigitChars, k) : k \in 1..Len(DigitChars)}
IsLetter(c) == c \in LetterSet
IsNumber(c) == c \in DigitSet

(***************************************************************************)
(* Package regexp, for the patterns the parser compiles.  A pattern is a   *)
(* sequence of alternatives in preference order; an alternative is a       *)
(* sequence of items; an item matches between min and max characters of a  *)
(* class, greedily.  Matching is leftmost-first, as Go's regexp.            *)
(***************************************************************************)
CharsOf(s) == {CharAt(s, k) : k \in 1..Len(s)}

\* \s and \d.
ReSpace == {" ", "\t", "\n", "\f", "\r"}
ReDigit == DigitSet

Item(class, lo, hi) == [class |-> class, min |-> lo, max |-> hi]
One(class) == Item(class, 1, 1)
Opt(class) == Item(class, 0, 1)
\* A max of -1 is no upper limit.
AtLeast(class, lo) == Item(class, lo, -1)
Star(class) == AtLeast(class, 0)
Plus(class) == AtLeast(class, 1)

ToUpperChar(c) ==
    IF c \in CharsOf(LowerChars)
    THEN CharAt(UpperChars, CHOOSE k \in 1..Len(LowerChars) : CharAt(LowerChars, k) = c)
    ELSE c

\* The items of a literal; under (?i) each letter matches in both cases.
Lit(s) == [k \in 1..Len(s) |-> One({CharAt(s, k)})]
LitFold(s) == [k \in 1..Len(s) |-> One({ToLowerChar(CharAt(s, k)), ToUpperChar(CharAt(s, k))})]

\* Number of characters of class from position pos on, at most hi if hi >= 0.
RECURSIVE RunLength(_, _, _, _)
RunLength(text, pos, class, hi) ==
    IF hi = 0 \/ pos > Len(text) \/ CharAt(text, pos) \notin class THEN 0
    ELSE 1 + RunLength(text, pos + 1, class, hi - 1)

\* The position after the preferred match of items k.. at pos, or -1.
RECURSIVE MatchItems(_, _, _, _)
RECURSIVE TryCounts(_, _, _, _, _)
MatchItems(items, k, text, pos) ==
    IF k > Len(items) THEN pos
    ELSE LET run == RunLength(text, pos, items[k].class, items[k].max)
         IN  IF run < items[k].min THEN -1 ELSE TryCounts(items, k, text, pos, run)

TryCounts(items, k, text, pos, n) ==
    IF n < items[k].min THEN -1
    ELSE LET after == MatchItems(items, k + 1, text, pos + n)
         IN  IF after # -1 THEN after ELSE TryCounts(items, k, text, pos, n - 1)

\* The first alternative that matches at pos decides.
RECURSIVE MatchAlternatives(_, _, _, _)
MatchAlternatives(alternatives, a, text, pos) ==
    IF a > Len(alternatives) THEN -1
    ELSE LET after == MatchItems(alternatives[a], 1, text, pos)
         IN  IF after # -1 THEN after ELSE MatchAlternatives(alternatives, a + 1, text, pos)

NoMatch == [start |-> 0, after |-> 0]

\* Leftmost match at or after position from: text[start .. after-1].
FindFrom(re, text, from) ==
    LET starts == {p \in from..(Len(text) + 1) : MatchAlternatives(re, 1, text, p) # -1}
    IN  IF starts = {} THEN NoMatch
        ELSE LET start == CHOOSE p \in starts : \A q \in starts : p <= q
             IN  [start |-> start, after |-> MatchAlternatives(re, 1, text, start)]

MatchString(re, text) == FindFrom(re, text, 1) # NoMatch

FindString(re, text) ==
    LET m == FindFrom(re, text, 1)
    IN  IF m = NoMatch THEN "" ELSE SubSeq(text, m.start, m.after - 1)

\* Successive non-overlapping matches (of patterns that match no empty string).
RECURSIVE FindAllFrom(_, _, _, _)
FindAllFrom(re, text, from, acc) ==
    LET m == FindFrom(re, text, from)
    IN  IF m = NoMatch THEN acc
        ELSE FindAllFrom(re, text, m.after, Append(acc, SubSeq(text, m.start, m.after - 1)))

FindAllString(re, text) == FindAllFrom(re, text, 1, <<>>)

\* The elements of a set of integers in increasing order.
Ascending(S) ==
    [k \in 1..Cardinality(S) |-> CHOOSE p \in S : Cardinality({q \in S : q <= p}) = k]

\* strings.Split(s, sep) for a one-character separator.
Split(s, sep) ==
    LET cuts == Ascending({p \in 1..Len(s) : CharAt(s, p) = sep})
        n == Len(cuts)
    IN  [k \in 1..(n + 1) |->
            SubSeq(s, IF k = 1 THEN 1 ELSE cuts[k - 1] + 1,
                      IF k = n + 1 THEN Len(s) ELSE cuts[k] - 1)]

\* strings.FieldsFunc: the maximal runs of characters that are no separator.
FieldsFunc(s, IsSeparator(_)) ==
    LET starts == Ascending({p \in 1..Len(s) :
                        /\ ~IsSeparator(CharAt(s, p))
                        /\ (p = 1 \/ IsSeparator(CharAt(s, p - 1)))})
        ends == Ascending({p \in 1..Len(s) :
                        /\ ~IsSeparator(CharAt(s, p))
                        /\ (p = Len(s) \/ IsSeparator(CharAt(s, p + 1)))})
    IN  [k \in 1..Len(starts) |-> SubSeq(s, starts[k], ends[k])]

\* strings.Fields
Fields(s) == FieldsFunc(s, IsSpaceChar)

(***************************************************************************)
(* services/nlp.go                                                         *)
(***************************************************************************)
min(a, b, c) ==
    IF a < b THEN (IF a < c THEN a ELSE c)
    ELSE IF b < c THEN b ELSE c

max(a, b) == IF a > b THEN a ELSE b

\* One row of the dynamic-programming matrix: cur[j+1] is matrix[i][j].
RECURSIVE FillRow(_, _, _, _, _)
FillRow(a, b, i, prev, cur) ==
    IF Len(cur) = Len(b) + 1 THEN cur
    ELSE LET j == Len(cur)
             cost == IF CharAt(a, i) # CharAt(b, j) THEN 1 ELSE 0
         IN  FillRow(a, b, i, prev,
                     Append(cur, min(prev[j + 1] + 1, cur[j] + 1, prev[j] + cost)))

RECURSIVE FillMatrix(_, _, _, _)
FillMatrix(a, b, i, prev) ==
    IF i > Len(a) THEN prev
    ELSE FillMatrix(a, b, i + 1, FillRow(a, b, i, prev, <<i>>))

calculateStringSimilarity(a, b) ==
    IF Len(a) = 0 THEN RInt(Len(b))
    ELSE IF Len(b) = 0 THEN RInt(Len(a))
    ELSE LET lastRow  == FillMatrix(a, b, 1, [j \in 1..(Len(b) + 1) |-> j - 1])
             distance == lastRow[Len(b) + 1]
             maxLen   == max(Len(a), Len(b))
         IN  IF maxLen = 0 THEN RInt(1)
             ELSE RSub(RInt(1), Rat(distance, maxLen))

\* resumeSet of CalculateSkillMatch: the lower-cased resume skills.
resumeSetOf(rs) == {ToLower(rs[k]) : k \in 1..Len(rs)}

\* The loop body of CalculateSkillMatch for job skill number k.
RECURSIVE skillLoop(_, _, _, _, _)
skillLoop(resumeSet, js, k, matched, missing) ==
    IF k > Len(js) THEN [matched |-> matched, missing |-> missing]
    ELSE LET jobSkill      == js[k]
             jobSkillLower == ToLower(jobSkill)
             found == \E resumeSkill \in resumeSet :
                          RGt(calculateStringSimilarity(resumeSkill, jobSkillLower), Rat(8, 10))
         IN  IF jobSkillLower \in resumeSet
             THEN skillLoop(resumeSet, js, k + 1, Append(matched, jobSkill), missing)
             ELSE IF found
                  THEN skillLoop(resumeSet, js, k + 1, Append(matched, jobSkill), missing)
                  ELSE skillLoop(resumeSet, js, k + 1, matched, Append(missing, jobSkill))

\* A CalculateSkillMatch that forgets the fuzzy branch.
CalculateSkillMatch_ExactOnly(rs, js) ==
    LET matched == SelectSeq(js, LAMBDA j : ToLower(j) \in resumeSetOf(rs))
        missing == SelectSeq(js, LAMBDA j : ToLower(j) \notin resumeSetOf(rs))
    IN  [Percentage |-> IF Len(js) > 0 THEN Rat(Len(matched) * 100, Len(js)) ELSE RInt(0),
         Matched    |-> matched,
         Missing    |-> missing]

CalculateSkillMatch(rs, js) ==
    LET r == skillLoop(resumeSetOf(rs), js, 1, <<>>, <<>>)
        matchPercentage == IF Len(js) > 0
                           THEN RMul(Rat(Len(r.matched), Len(js)), RInt(100))
                           ELSE RInt(0)
    IN  [Percentage |-> matchPercentage,
         Matched    |-> r.matched,
         Missing    |-> r.missing]

\* The inner loop without its break: a job skill is appended once for every
\* similar resume skill.
RECURSIVE rangeResumeSet_NoBreak(_, _, _, _)
rangeResumeSet_NoBreak(order, i, jobSkill, matched) ==
    IF i > Len(order) THEN [matched |-> matched, found |-> matched # <<>> /\ matched[Len(matched)] = jobSkill]
    ELSE rangeResumeSet_NoBreak(order, i + 1, jobSkill,
             IF RGt(calculateStringSimilarity(order[i], ToLower(jobSkill)), Rat(8, 10))
             THEN Append(matched, jobSkill) ELSE matched)

\* `for resumeSkill := range resumeSet` with the keys of the map coming in
\* the given order: the job skill is appended at the first similar key.
RECURSIVE rangeResumeSet(_, _, _, _)
rangeResumeSet(order, i, jobSkill, matched) ==
    IF i > Len(order) THEN [matched |-> matched, found |-> FALSE]
    ELSE IF RGt(calculateStringSimilarity(order[i], ToLower(jobSkill)), Rat(8, 10))
         THEN [matched |-> Append(matched, jobSkill), found |-> TRUE]
         ELSE rangeResumeSet(order, i + 1, jobSkill, matched)

RECURSIVE skillLoopInOrder(_, _, _, _, _)
skillLoopInOrder(order, js, k, matched, missing) ==
    IF k > Len(js) THEN [matched |-> matched, missing |-> missing]
    ELSE LET jobSkill == js[k]
             ranged   == rangeResumeSet(order, 1, jobSkill, matched)
         IN  IF ToLower(jobSkill) \in SeqToSet(order)
             THEN skillLoopInOrder(order, js, k + 1, Append(matched, jobSkill), missing)
             ELSE IF ranged.found
                  THEN skillLoopInOrder(order, js, k + 1, ranged.matched, missing)
                  ELSE skillLoopInOrder(order, js, k + 1, ranged.matched, Append(missing, jobSkill))

\* The orders in which a Go map with the keys S can be ranged over.
IterationOrders(S) ==
    {o \in [1..Cardinality(S) -> S] : \A i, j \in 1..Cardinality(S) : o[i] = o[j] => i = j}

\* CalculateSkillMatch when the map of resume skills is ranged over in the
\* given order.
CalculateSkillMatchInOrder(order, js) ==
    LET r == skillLoopInOrder(order, js, 1, <<>>, <<>>)
        matchPercentage == IF Len(js) > 0
                           THEN RMul(Rat(Len(r.matched), Len(js)), RInt(100))
                           ELSE RInt(0)
    IN  [Percentage |-> matchPercentage,
         Matched    |-> r.matched,
         Missing    |-> r.missing]

stopWords ==
    {"a", "an", "and", "are", "as", "at", "be", "by", "for", "from", "has", "he",
     "in", "is", "it", "its", "of", "on", "that", "the", "to", "was", "were", "will",
     "with", "you", "your", "have", "had", "this", "they", "we", "our", "us", "can",
     "could", "would", "should", "may", "might", "must"}

RECURSIVE tokenizeLoop(_, _, _)
tokenizeLoop(words, k, tokens) ==
    IF k > Len(words) THEN tokens
    ELSE LET word == TrimSpace(words[k])
         IN  tokenizeLoop(words, k + 1,
                          IF Len(word) > 2 /\ word \notin stopWords
                          THEN Append(tokens, word) ELSE tokens)

Tokenize(text) ==
    tokenizeLoop(FieldsFunc(ToLower(text), LAMBDA c : ~IsLetter(c) /\ ~IsNumber(c)), 1, <<>>)

\* The map built by `freq[token]++` over a token list.
termFrequency(tokens) ==
    [term \in SeqToSet(tokens) |-> Cardinality({k \in 1..Len(tokens) : tokens[k] = term})]

freqOf(freq, term) == IF term \in DOMAIN freq THEN freq[term] ELSE 0

RECURSIVE SumOver(_, _)
SumOver(S, f) ==
    IF S = {} THEN 0
    ELSE LET x == CHOOSE y \in S : TRUE IN f[x] + SumOver(S \ {x}, f)

\* A non-negative float64 given by its square: SqrtOf(q) stands for the
\* square root of the rational q, and SqrtOf(<<0, 0>>) for NaN.
SqrtOf(q) == [sqrtOf |-> q]

\* The guard tests norm1 alone; a zero norm2 then divides zero by zero.
CalculateCosineSimilarity_FirstNormOnly(text1, text2) ==
    LET freq1 == termFrequency(Tokenize(text1))
        freq2 == termFrequency(Tokenize(text2))
        allTerms == DOMAIN freq1 \cup DOMAIN freq2
        dotProduct == SumOver(allTerms, [t \in allTerms |-> freqOf(freq1, t) * freqOf(freq2, t)])
        norm1 == SumOver(allTerms, [t \in allTerms |-> freqOf(freq1, t) * freqOf(freq1, t)])
        norm2 == SumOver(allTerms, [t \in allTerms |-> freqOf(freq2, t) * freqOf(freq2, t)])
    IN  IF norm1 = 0 THEN SqrtOf(RInt(0))
        ELSE IF norm2 = 0 THEN SqrtOf(<<0, 0>>)
        ELSE SqrtOf(Rat(dotProduct * dotProduct, norm1 * norm2))

\* dotProduct / (sqrt(norm1) * sqrt(norm2)) is the square root of
\* dotProduct^2 / (norm1 * norm2), all three being non-negative.
CalculateCosineSimilarity(text1, text2) ==
    LET freq1 == termFrequency(Tokenize(text1))
        freq2 == termFrequency(Tokenize(text2))
        allTerms == DOMAIN freq1 \cup DOMAIN freq2
        dotProduct == SumOver(allTerms, [t \in allTerms |-> freqOf(freq1, t) * freqOf(freq2, t)])
        norm1 == SumOver(allTerms, [t \in allTerms |-> freqOf(freq1, t) * freqOf(freq1, t)])
        norm2 == SumOver(allTerms, [t \in allTerms |-> freqOf(freq2, t) * freqOf(freq2, t)])
    IN  IF norm1 = 0 \/ norm2 = 0 THEN SqrtOf(RInt(0))
        ELSE SqrtOf(Rat(dotProduct * dotProduct, norm1 * norm2))

\* The orders sort.Slice can leave the (term, frequency) pairs in: every
\* arrangement of the terms by non-increasing frequency.  The pairs are
\* appended in the iteration order of a Go map, which is unspecified, and
\* sort.Slice is not stable, so terms of equal frequency come in any order.
RECURSIVE sortedScores(_, _)
sortedScores(terms, termFreq) ==
    IF terms = {} THEN {<<>>}
    ELSE LET highest == {t \in terms : \A u \in terms : termFreq[t] >= termFreq[u]}
         IN  UNION {{<<t>> \o rest : rest \in sortedScores(terms \ {t}, termFreq)} : t \in highest}

\* The lists a call can return: the first topK terms of some sorted order.
ExtractKeywords(text, topK) ==
    LET termFreq == termFrequency(Tokenize(text))
    IN  {[i \in 1..(IF topK < Len(scores) THEN topK ELSE Len(scores)) |-> scores[i]] :
            scores \in sortedScores(DOMAIN termFreq, termFreq)}

(***************************************************************************)
(* utils/text.go                                                           *)
(***************************************************************************)
RECURSIVE removeDuplicatesLoop(_, _, _, _)
removeDuplicatesLoop(slice, k, keys, res) ==
    IF k > Len(slice) THEN res
    ELSE LET item == TrimSpace(slice[k])
         IN  IF item # "" /\ item \notin keys
             THEN removeDuplicatesLoop(slice, k + 1, keys \cup {item}, Append(res, item))
             ELSE removeDuplicatesLoop(slice, k + 1, keys, res)

\* Entries are compared and kept as written, without trimming.
RemoveDuplicates_Untrimmed(slice) ==
    LET kept == Ascending({k \in 1..Len(slice) :
                    slice[k] # "" /\ \A j \in 1..(k - 1) : slice[j] # slice[k]})
    IN  [i \in 1..Len(kept) |-> slice[kept[i]]]

RemoveDuplicates(slice) == removeDuplicatesLoop(slice, 1, {}, <<>>)

(***************************************************************************)
(* models/resume.go                                                        *)
(***************************************************************************)
\* A *time.Time: <<>> is the nil pointer, <<d>> points to day d.
Nil == <<>>

\* The largest time.Duration, 2^63 - 1 nanoseconds, in whole days.
maxDuration == 106751

\* t.Sub(u): the difference, or the largest (smallest) Duration when the
\* difference does not fit.
Sub(t, u) ==
    IF t - u > maxDuration THEN maxDuration
    ELSE IF t - u < -maxDuration THEN -maxDuration
    ELSE t - u

\* Dates and the clock are whole days; a year is 365.25 days (24 * 365.25 hours).
RECURSIVE experienceYearsLoop(_, _, _, _)
experienceYearsLoop(experience, clock, k, totalYears) ==
    IF k > Len(experience) THEN totalYears
    ELSE LET exp      == experience[k]
             endDate  == IF exp.EndDate # Nil THEN exp.EndDate[1] ELSE clock
             duration == Sub(endDate, exp.StartDate)
             years    == Rat(duration * 4, 1461)
         IN  experienceYearsLoop(experience, clock, k + 1, RAdd(totalYears, years))

\* Every entry is counted up to the clock, whether or not it has an end date.
CalculateExperienceYears_AlwaysNow(r, clock) ==
    experienceYearsLoop([k \in 1..Len(r.Experience) |-> [r.Experience[k] EXCEPT !.EndDate = Nil]],
                        clock, 1, RInt(0))

CalculateExperienceYears(r, clock) == experienceYearsLoop(r.Experience, clock, 1, RInt(0))

(***************************************************************************)
(* services/scorer.go                                                      *)
(***************************************************************************)
\* Weights that favour skills more and no longer sum as documented.
DefaultWeights_Skewed ==
    [SkillWeight      |-> Rat(5, 10),
     ExperienceWeight |-> Rat(3, 10),
     EducationWeight  |-> Rat(2, 10),
     FormatWeight     |-> Rat(1, 10)]

DefaultWeights ==
    [SkillWeight      |-> Rat(4, 10),
     ExperienceWeight |-> Rat(3, 10),
     EducationWeight  |-> Rat(2, 10),
     FormatWeight     |-> Rat(1, 10)]

calculateSkillMatch(r, jd) ==
    LET allJobSkills == RemoveDuplicates(jd.RequiredSkills \o jd.PreferredSkills)
        m == CalculateSkillMatch(r.Skills, allJobSkills)
    IN  [Percentage    |-> m.Percentage,
         MatchedSkills |-> m.Matched,
         MissingSkills |-> m.Missing,
         TotalRequired |-> Len(allJobSkills),
         TotalMatched  |-> Len(m.Matched)]

\* A calculateExperienceMatch without the branch for "no requirement".
calculateExperienceMatch_NoZeroBranch(r, jd, clock) ==
    LET candidateYears   == CalculateExperienceYears(r, clock)
        requiredYears    == RInt(jd.MinExperience)
        meetsRequirement == RGe(candidateYears, requiredYears)
        score == IF RGe(candidateYears, requiredYears) THEN RInt(1)
                 ELSE IF jd.MinExperience = 0 THEN RInt(0)
                 ELSE RDiv(candidateYears, requiredYears)
    IN  [Score            |-> score,
         YearsRequired    |-> jd.MinExperience,
         YearsCandidate   |-> candidateYears,
         MeetsRequirement |-> meetsRequirement]

calculateExperienceMatch(r, jd, clock) ==
    LET candidateYears   == CalculateExperienceYears(r, clock)
        requiredYears    == RInt(jd.MinExperience)
        meetsRequirement == RGe(candidateYears, requiredYears)
        partial          == RDiv(candidateYears, requiredYears)
        score == IF requiredYears = RInt(0) THEN RInt(1)
                 ELSE IF RGe(candidateYears, requiredYears) THEN RInt(1)
                 ELSE IF RGt(partial, RInt(1)) THEN RInt(1) ELSE partial
    IN  [Score            |-> score,
         YearsRequired    |-> jd.MinExperience,
         YearsCandidate   |-> candidateYears,
         MeetsRequirement |-> meetsRequirement]

equivalents ==
    [bachelor |-> <<"bs", "ba", "btech", "bsc", "bachelor's">>,
     master   |-> <<"ms", "ma", "mtech", "msc", "master's", "mba">>,
     phd      |-> <<"doctorate", "doctoral", "ph.d">>]

educationMatches(candidateEd, requiredEd) ==
    LET candidate == ToLower(candidateEd)
        required  == ToLower(requiredEd)
        hasDegree(str, degree) ==
            \/ Contains(str, degree)
            \/ \E k \in 1..Len(equivalents[degree]) : Contains(str, equivalents[degree][k])
    IN  \/ Contains(candidate, required)
        \/ Contains(required, candidate)
        \/ \E degree \in DOMAIN equivalents :
               hasDegree(candidate, degree) /\ hasDegree(required, degree)

\* The (resume degree, required degree) pairs in loop order, resume outermost.
RECURSIVE matchedDegreesLoop(_, _, _, _, _)
matchedDegreesLoop(education, required, i, j, matched) ==
    IF i > Len(education) THEN matched
    ELSE IF j > Len(required) THEN matchedDegreesLoop(education, required, i + 1, 1, matched)
    ELSE matchedDegreesLoop(education, required, i, j + 1,
             IF educationMatches(education[i].Degree, required[j])
             THEN Append(matched, education[i].Degree) ELSE matched)

\* Education that matches no requirement earns nothing.
calculateEducationMatch_NoPartial(r, jd) ==
    IF Len(jd.Education) = 0
    THEN [Score |-> RInt(1), MatchedDegrees |-> <<>>, HasRequiredEducation |-> TRUE]
    ELSE LET matchedDegrees == matchedDegreesLoop(r.Education, jd.Education, 1, 1, <<>>)
             hasMatch == Len(matchedDegrees) > 0
             score == IF hasMatch THEN RInt(1) ELSE RInt(0)
         IN  [Score |-> score, MatchedDegrees |-> matchedDegrees,
              HasRequiredEducation |-> hasMatch]

calculateEducationMatch(r, jd) ==
    IF Len(jd.Education) = 0
    THEN [Score |-> RInt(1), MatchedDegrees |-> <<>>, HasRequiredEducation |-> TRUE]
    ELSE LET matchedDegrees == matchedDegreesLoop(r.Education, jd.Education, 1, 1, <<>>)
             hasMatch == Len(matchedDegrees) > 0
             score == IF hasMatch THEN RInt(1)
                      ELSE IF Len(r.Education) > 0 THEN Rat(1, 2) ELSE RInt(0)
         IN  [Score |-> score, MatchedDegrees |-> matchedDegrees,
              HasRequiredEducation |-> hasMatch]

\* len(strings.Split(text, " ")): one more than the number of spaces.
SplitOnSpaceCount(text) == 1 + Cardinality({k \in 1..Len(text) : CharAt(text, k) = " "})

TooLongWords == 1000

\* The phone check comes before the email check.
analyzeAdditionalFormatIssues_PhoneFirst(r) ==
    LET hasExperience == Len(r.Experience) > 0
        hasEducation  == Len(r.Education) > 0
        hasSkills     == Len(r.Skills) > 0
    IN  (IF r.PersonalInfo.Phone = "" THEN <<"Missing phone number">> ELSE <<>>)
        \o (IF r.PersonalInfo.Email = "" THEN <<"Missing email address">> ELSE <<>>)
        \o (IF ~hasExperience /\ ~hasEducation
            THEN <<"Missing key sections (experience or education)">> ELSE <<>>)
        \o (IF ~hasSkills THEN <<"No skills section identified">> ELSE <<>>)
        \o (IF SplitOnSpaceCount(r.RawText) > TooLongWords
            THEN <<"Resume may be too long (consider condensing)">> ELSE <<>>)

analyzeAdditionalFormatIssues(r) ==
    LET hasExperience == Len(r.Experience) > 0
        hasEducation  == Len(r.Education) > 0
        hasSkills     == Len(r.Skills) > 0
    IN  (IF r.PersonalInfo.Email = "" THEN <<"Missing email address">> ELSE <<>>)
        \o (IF r.PersonalInfo.Phone = "" THEN <<"Missing phone number">> ELSE <<>>)
        \o (IF ~hasExperience /\ ~hasEducation
            THEN <<"Missing key sections (experience or education)">> ELSE <<>>)
        \o (IF ~hasSkills THEN <<"No skills section identified">> ELSE <<>>)
        \o (IF SplitOnSpaceCount(r.RawText) > TooLongWords
            THEN <<"Resume may be too long (consider condensing)">> ELSE <<>>)

\* A calculateFormatScore that takes 0.1 off per issue.
calculateFormatScore_Tenth(r) ==
    LET issues  == r.FormatIssues \o analyzeAdditionalFormatIssues(r)
        reduced == RSub(RInt(1), RMul(RInt(Len(issues)), Rat(1, 10)))
        score   == IF RLt(reduced, Rat(3, 10)) THEN Rat(3, 10) ELSE reduced
    IN  [Score |-> score, Issues |-> issues, IsATSFriendly |-> Len(issues) <= 1]

calculateFormatScore(r) ==
    LET issues  == r.FormatIssues \o analyzeAdditionalFormatIssues(r)
        reduced == RSub(RInt(1), RMul(RInt(Len(issues)), Rat(2, 10)))
        score   == IF Len(issues) > 0
                   THEN (IF RLt(reduced, Rat(3, 10)) THEN Rat(3, 10) ELSE reduced)
                   ELSE RInt(1)
    IN  [Score |-> score, Issues |-> issues, IsATSFriendly |-> Len(issues) <= 1]

\* len(strings.Fields(text)): the number of places where a word starts.
CalculateWordCount(text) ==
    Cardinality({p \in 1..Len(text) :
                    /\ ~IsSpaceChar(CharAt(text, p))
                    /\ (p = 1 \/ IsSpaceChar(CharAt(text, p - 1)))})

\* strings.Join(q, sep)
RECURSIVE Join(_, _)
Join(q, sep) ==
    IF Len(q) = 0 THEN ""
    ELSE IF Len(q) = 1 THEN q[1]
    ELSE q[1] \o sep \o Join(Tail(q), sep)

FirstN(q, n) == SubSeq(q, 1, n)

LowercaseHasQuantifiedResults(text) ==
    LET lower == ToLower(text)
    IN  \/ Contains(lower, "%")
        \/ Contains(lower, "increased")
        \/ Contains(lower, "reduced")
        \/ Contains(lower, "improved")

MsgLowSkill == "Your skill match is low. Consider adding more relevant skills from the job description."
MsgKeyMissing == "Key missing skills: "
MsgGoodSkill == "Good skill match! Consider adding: "
MsgExperience == "You may not meet the minimum experience requirement. Highlight relevant internships, projects, or transferable skills."
MsgEducation == "Consider highlighting relevant coursework, certifications, or continuing education if you don't have the preferred degree."
MsgTables == "Avoid using tables - use bullet points and clear headings instead."
MsgColumns == "Use a single-column layout for better ATS readability."
MsgEmail == "Add your email address to the contact section."
MsgPhone == "Include your phone number in the contact information."
MsgSkills == "Add a clear skills section with relevant technical and soft skills."
MsgTooLong == "Consider condensing your resume to 1-2 pages for better readability."
MsgTailor == "Consider tailoring your resume more closely to this specific job description."
MsgQuantify == "Add quantified achievements (e.g., 'Increased sales by 20%', 'Managed team of 5 people')."

\* The switch over one format issue in generateSuggestions.
\* The switch without its phone case.
formatIssueSuggestion_NoPhone(issue) ==
    IF Contains(issue, "table") THEN <<MsgTables>>
    ELSE IF Contains(issue, "column") THEN <<MsgColumns>>
    ELSE IF Contains(issue, "email") THEN <<MsgEmail>>
    ELSE IF Contains(issue, "skills") THEN <<MsgSkills>>
    ELSE IF Contains(issue, "too long") THEN <<MsgTooLong>>
    ELSE <<>>

formatIssueSuggestion(issue) ==
    IF Contains(issue, "table") THEN <<MsgTables>>
    ELSE IF Contains(issue, "column") THEN <<MsgColumns>>
    ELSE IF Contains(issue, "email") THEN <<MsgEmail>>
    ELSE IF Contains(issue, "phone") THEN <<MsgPhone>>
    ELSE IF Contains(issue, "skills") THEN <<MsgSkills>>
    ELSE IF Contains(issue, "too long") THEN <<MsgTooLong>>
    ELSE <<>>

RECURSIVE formatSuggestions(_, _)
formatSuggestions(issues, k) ==
    IF k > Len(issues) THEN <<>>
    ELSE formatIssueSuggestion(issues[k]) \o formatSuggestions(issues, k + 1)

generateSuggestions(r, jd, skillMatch, experienceMatch, educationMatch, formatScore) ==
    LET topMissing == IF Len(skillMatch.MissingSkills) > 5
                      THEN FirstN(skillMatch.MissingSkills, 5)
                      ELSE skillMatch.MissingSkills
        maxSkills == IF Len(skillMatch.MissingSkills) < 3 THEN Len(skillMatch.MissingSkills) ELSE 3
        skillPart ==
            IF RLt(skillMatch.Percentage, RInt(50))
            THEN <<MsgLowSkill>>
                 \o (IF Len(skillMatch.MissingSkills) > 0
                     THEN <<MsgKeyMissing \o Join(topMissing, ", ")>> ELSE <<>>)
            ELSE IF RLt(skillMatch.Percentage, RInt(75))
            THEN <<MsgGoodSkill \o Join(FirstN(skillMatch.MissingSkills, maxSkills), ", ")>>
            ELSE <<>>
        experiencePart ==
            IF ~experienceMatch.MeetsRequirement
               /\ RLt(experienceMatch.YearsCandidate, RInt(experienceMatch.YearsRequired))
            THEN <<MsgExperience>> ELSE <<>>
        educationPart ==
            IF ~educationMatch.HasRequiredEducation /\ Len(jd.Education) > 0
            THEN <<MsgEducation>> ELSE <<>>
        overallScore ==
            RMul(RAdd(RAdd(RAdd(RMul(RDiv(skillMatch.Percentage, RInt(100)), Rat(4, 10)),
                                RMul(experienceMatch.Score, Rat(3, 10))),
                           RMul(educationMatch.Score, Rat(2, 10))),
                      RMul(formatScore.Score, Rat(1, 10))),
                 RInt(100))
    IN  skillPart \o experiencePart \o educationPart
        \o formatSuggestions(formatScore.Issues, 1)
        \o (IF RLt(overallScore, RInt(60)) THEN <<MsgTailor>> ELSE <<>>)
        \o (IF ~LowercaseHasQuantifiedResults(r.RawText) THEN <<MsgQuantify>> ELSE <<>>)

AnalyzeResume(r, jd, clock) ==
    LET weights         == DefaultWeights
        skillMatch      == calculateSkillMatch(r, jd)
        experienceMatch == calculateExperienceMatch(r, jd, clock)
        educationMatch  == calculateEducationMatch(r, jd)
        formatScore     == calculateFormatScore(r)
        overallScore ==
            RMul(RAdd(RAdd(RAdd(RMul(RDiv(skillMatch.Percentage, RInt(100)), weights.SkillWeight),
                                RMul(experienceMatch.Score, weights.ExperienceWeight)),
                           RMul(educationMatch.Score, weights.EducationWeight)),
                      RMul(formatScore.Score, weights.FormatWeight)),
                 RInt(100))
        suggestions == generateSuggestions(r, jd, skillMatch, experienceMatch,
                                           educationMatch, formatScore)
    IN  [Score           |-> overallScore,
         SkillMatch      |-> skillMatch,
         ExperienceMatch |-> experienceMatch,
         EducationMatch  |-> educationMatch,
         FormatScore     |-> formatScore,
         MissingKeywords |-> skillMatch.MissingSkills,
         MatchedKeywords |-> skillMatch.MatchedSkills,
         Suggestions     |-> suggestions,
         ScoreBreakdown  |->
             [SkillWeight      |-> weights.SkillWeight,
              ExperienceWeight |-> weights.ExperienceWeight,
              EducationWeight  |-> weights.EducationWeight,
              FormatWeight     |-> weights.FormatWeight,
              SkillScore       |-> skillMatch.Percentage,
              ExperienceScore  |-> RMul(experienceMatch.Score, RInt(100)),
              EducationScore   |-> RMul(educationMatch.Score, RInt(100)),
              FormatScore      |-> RMul(formatScore.Score, RInt(100))]]

\* A calculateSkillScoreStandalone whose skill bonus is not capped.
calculateSkillScoreStandalone_NoCap(r) ==
    LET skillCount == Len(r.Skills)
        baseScore  == Rat(3, 10)
        skillBonus == Rat(skillCount, 20)
    IN  IF skillCount = 0 THEN RInt(0) ELSE RAdd(baseScore, skillBonus)

calculateSkillScoreStandalone(r) ==
    LET skillCount == Len(r.Skills)
        baseScore  == Rat(3, 10)
        bonus      == Rat(skillCount, 20)
        skillBonus == IF RGt(bonus, Rat(7, 10)) THEN Rat(7, 10) ELSE bonus
    IN  IF skillCount = 0 THEN RInt(0) ELSE RAdd(baseScore, skillBonus)

calculateExperienceScoreStandalone(r, clock) ==
    LET years == CalculateExperienceYears(r, clock)
    IN  IF years = RInt(0) THEN RInt(0)
        ELSE IF RLt(years, RInt(1)) THEN Rat(2, 10)
        ELSE IF RLt(years, RInt(3)) THEN Rat(5, 10)
        ELSE IF RLt(years, RInt(5)) THEN Rat(7, 10)
        ELSE IF RLt(years, RInt(10)) THEN Rat(9, 10)
        ELSE RInt(1)

degreeScoreStandalone(eduDegree) ==
    LET degree == ToLower(eduDegree)
    IN  IF Contains(degree, "phd") \/ Contains(degree, "doctorate") THEN RInt(1)
        ELSE IF Contains(degree, "master") \/ Contains(degree, "mba") THEN Rat(9, 10)
        ELSE IF Contains(degree, "bachelor") \/ Contains(degree, "b.s") \/ Contains(degree, "b.a")
             THEN Rat(8, 10)
        ELSE IF Contains(degree, "associate") THEN Rat(6, 10)
        ELSE IF Contains(degree, "diploma") \/ Contains(degree, "certificate") THEN Rat(5, 10)
        ELSE Rat(4, 10)

RECURSIVE maxDegreeScore(_, _, _)
maxDegreeScore(education, k, maxScore) ==
    IF k > Len(education) THEN maxScore
    ELSE LET score == degreeScoreStandalone(education[k].Degree)
         IN  maxDegreeScore(education, k + 1, IF RGt(score, maxScore) THEN score ELSE maxScore)

\* A calculateEducationScoreStandalone that gives nothing without education.
calculateEducationScoreStandalone_NoFloor(r) ==
    maxDegreeScore(r.Education, 1, RInt(0))

calculateEducationScoreStandalone(r) ==
    IF Len(r.Education) = 0 THEN Rat(3, 10)
    ELSE maxDegreeScore(r.Education, 1, RInt(0))

MsgMoreSkills == "Add more relevant technical and soft skills to your resume."
MsgNoExperience == "Include internships, projects, or volunteer work to demonstrate experience."
MsgNoEducation == "Add your educational background including degrees, certifications, or relevant coursework."
MsgNoEmail == "Include your email address in the contact section."
MsgNoPhone == "Add your phone number to make it easy for employers to contact you."
MsgNoProjects == "Include relevant projects to showcase your practical skills and experience."
MsgNoCertifications == "Add professional certifications or relevant training to strengthen your profile."

\* The switch over one format issue in generateStandaloneSuggestions.
standaloneIssueSuggestion_WithContact(issue) ==
    IF Contains(issue, "table") THEN <<MsgTables>>
    ELSE IF Contains(issue, "column") THEN <<MsgColumns>>
    ELSE IF Contains(issue, "email") THEN <<MsgNoEmail>>
    ELSE IF Contains(issue, "phone") THEN <<MsgNoPhone>>
    ELSE IF Contains(issue, "too long") THEN <<MsgTooLong>>
    ELSE <<>>

standaloneIssueSuggestion(issue) ==
    IF Contains(issue, "table") THEN <<MsgTables>>
    ELSE IF Contains(issue, "column") THEN <<MsgColumns>>
    ELSE IF Contains(issue, "too long") THEN <<MsgTooLong>>
    ELSE <<>>

RECURSIVE standaloneFormatSuggestions(_, _)
standaloneFormatSuggestions(issues, k) ==
    IF k > Len(issues) THEN <<>>
    ELSE standaloneIssueSuggestion(issues[k]) \o standaloneFormatSuggestions(issues, k + 1)

generateStandaloneSuggestions(r, formatScore, clock) ==
    LET years == CalculateExperienceYears(r, clock)
    IN  (IF Len(r.Skills) < 5 THEN <<MsgMoreSkills>> ELSE <<>>)
        \o (IF RLt(years, RInt(1)) THEN <<MsgNoExperience>> ELSE <<>>)
        \o (IF Len(r.Education) = 0 THEN <<MsgNoEducation>> ELSE <<>>)
        \o (IF r.PersonalInfo.Email = "" THEN <<MsgNoEmail>> ELSE <<>>)
        \o (IF r.PersonalInfo.Phone = "" THEN <<MsgNoPhone>> ELSE <<>>)
        \o standaloneFormatSuggestions(formatScore.Issues, 1)
        \o (IF ~LowercaseHasQuantifiedResults(r.RawText) THEN <<MsgQuantify>> ELSE <<>>)
        \o (IF Len(r.Projects) = 0 THEN <<MsgNoProjects>> ELSE <<>>)
        \o (IF Len(r.Certifications) = 0 THEN <<MsgNoCertifications>> ELSE <<>>)

RECURSIVE extractDegreeNames(_)
extractDegreeNames(education) ==
    IF Len(education) = 0 THEN <<>>
    ELSE (IF Head(education).Degree # "" THEN <<Head(education).Degree>> ELSE <<>>)
         \o extractDegreeNames(Tail(education))

AnalyzeResumeStandalone(r, clock) ==
    LET weights         == DefaultWeights
        skillScore      == calculateSkillScoreStandalone(r)
        experienceScore == calculateExperienceScoreStandalone(r, clock)
        educationScore  == calculateEducationScoreStandalone(r)
        formatScore     == calculateFormatScore(r)
        overallScore ==
            RMul(RAdd(RAdd(RAdd(RMul(skillScore, weights.SkillWeight),
                                RMul(experienceScore, weights.ExperienceWeight)),
                           RMul(educationScore, weights.EducationWeight)),
                      RMul(formatScore.Score, weights.FormatWeight)),
                 RInt(100))
        suggestions == generateStandaloneSuggestions(r, formatScore, clock)
    IN  [Score           |-> overallScore,
         SkillMatch      |->
             [Percentage    |-> RMul(skillScore, RInt(100)),
              MatchedSkills |-> r.Skills,
              MissingSkills |-> <<>>,
              TotalRequired |-> Len(r.Skills),
              TotalMatched  |-> Len(r.Skills)],
         ExperienceMatch |->
             [Score            |-> experienceScore,
              YearsRequired    |-> 0,
              YearsCandidate   |-> CalculateExperienceYears(r, clock),
              MeetsRequirement |-> TRUE],
         EducationMatch  |->
             [Score                |-> educationScore,
              MatchedDegrees       |-> extractDegreeNames(r.Education),
              HasRequiredEducation |-> Len(r.Education) > 0],
         FormatScore     |-> formatScore,
         MissingKeywords |-> <<>>,
         MatchedKeywords |-> r.Skills,
         Suggestions     |-> suggestions,
         ScoreBreakdown  |->
             [SkillWeight      |-> weights.SkillWeight,
              ExperienceWeight |-> weights.ExperienceWeight,
              EducationWeight  |-> weights.EducationWeight,
              FormatWeight     |-> weights.FormatWeight,
              SkillScore       |-> RMul(skillScore, RInt(100)),
              ExperienceScore  |-> RMul(experienceScore, RInt(100)),
              EducationScore   |-> RMul(educationScore, RInt(100)),
              FormatScore      |-> RMul(formatScore.Score, RInt(100))]]

(***************************************************************************)
(* services/parser.go.  Texts are ASCII, so len counts characters.         *)
(***************************************************************************)
\* filepath.Ext: from the last dot of the last path element on.
RECURSIVE extLoop(_, _)
extLoop(path, i) ==
    IF i < 1 \/ CharAt(path, i) = "/" THEN ""
    ELSE IF CharAt(path, i) = "." THEN SubSeq(path, i, Len(path))
    ELSE extLoop(path, i - 1)

Ext(path) == extLoop(path, Len(path))

\* What the PDF or DOCX library finds in a file: whether it opens, and the
\* text of its pages (paragraphs); <<>> is a page whose text cannot be read.
RECURSIVE pagesText(_, _)
pagesText(pages, i) ==
    IF i > Len(pages) THEN ""
    ELSE IF pages[i] = <<>> THEN pagesText(pages, i + 1)
    ELSE pages[i][1] \o "\n" \o pagesText(pages, i + 1)

parsePDF(file) ==
    IF file.openError THEN [text |-> "", err |-> "open failed"]
    ELSE [text |-> pagesText(file.pages, 1), err |-> ""]

\* A paragraph always has its runs' text.
parseDOCX(file) ==
    IF file.openError THEN [text |-> "", err |-> "open failed"]
    ELSE [text |-> pagesText(file.pages, 1), err |-> ""]

emailRegex ==
    << <<Plus(LetterSet \cup DigitSet \cup {".", "_", "%", "+", "-"}),
         One({"@"}),
         Plus(LetterSet \cup DigitSet \cup {".", "-"}),
         One({"."}),
         AtLeast(LetterSet, 2)>> >>

\* The optional group (\+?1?[-.\s]?)? holds optional items only.
phoneSeparator == {"-", "."} \cup ReSpace
phoneRegex ==
    << <<Opt({"+"}), Opt({"1"}), Opt(phoneSeparator),
         Opt({"("}), Item(ReDigit, 3, 3), Opt({")"}),
         Opt(phoneSeparator), Item(ReDigit, 3, 3),
         Opt(phoneSeparator), Item(ReDigit, 4, 4)>> >>

\* ^[A-Za-z\s.]{2,}$
nameRegexMatches(line) ==
    /\ Len(line) >= 2
    /\ \A k \in 1..Len(line) : CharAt(line, k) \in LetterSet \cup ReSpace \cup {"."}

RECURSIVE nameLoop(_, _)
nameLoop(lines, i) ==
    IF i >= Len(lines) \/ i > 5 THEN ""
    ELSE LET cleanLine == TrimSpace(lines[i + 1])
         IN  IF /\ Len(cleanLine) > 2 /\ Len(cleanLine) < 50
                /\ ~Contains(cleanLine, "@")
                /\ ~MatchString(phoneRegex, cleanLine)
                /\ nameRegexMatches(cleanLine)
             THEN cleanLine
             ELSE nameLoop(lines, i + 1)

extractPersonalInfo(text) ==
    [Name    |-> nameLoop(Split(text, "\n"), 0),
     Email   |-> FindString(emailRegex, text),
     Phone   |-> FindString(phoneRegex, text),
     Address |-> ""]

degreeRegex ==
    LET dot == <<Opt({"."})>>
    IN  <<LitFold("bachelor"), LitFold("master"), LitFold("phd"),
          LitFold("b") \o dot \o LitFold("s") \o dot,
          LitFold("m") \o dot \o LitFold("s") \o dot,
          LitFold("b") \o dot \o LitFold("a") \o dot,
          LitFold("m") \o dot \o LitFold("a") \o dot,
          LitFold("b") \o dot \o LitFold("tech"),
          LitFold("m") \o dot \o LitFold("tech"),
          LitFold("mba"), LitFold("diploma")>>

yearRegex ==
    <<Lit("19") \o <<Item(ReDigit, 2, 2)>>, Lit("20") \o <<Item(ReDigit, 2, 2)>> >>

\* strconv.Atoi on a string of digits.
RECURSIVE Atoi(_)
Atoi(s) ==
    IF Len(s) = 0 THEN 0
    ELSE 10 * Atoi(SubSeq(s, 1, Len(s) - 1))
         + (CHOOSE d \in 0..9 : CharAt(DigitChars, d + 1) = CharAt(s, Len(s)))

RECURSIVE institutionLoop(_, _, _)
institutionLoop(lines, i, j) ==
    IF ~(j < Len(lines) /\ j < i + 3) THEN ""
    ELSE LET currentLine == TrimSpace(lines[j + 1])
         IN  IF Len(currentLine) > 5 /\ ~MatchString(degreeRegex, currentLine)
             THEN currentLine
             ELSE institutionLoop(lines, i, j + 1)

RECURSIVE educationLoop(_, _, _)
educationLoop(lines, i, education) ==
    IF i >= Len(lines) THEN education
    ELSE LET line == lines[i + 1]
             degree == TrimSpace(FindString(degreeRegex, line))
             year == FindString(yearRegex, line)
             entry == [Degree      |-> degree,
                       Institution |-> institutionLoop(lines, i, i),
                       Year        |-> IF year # "" THEN Atoi(year) ELSE 0,
                       GPA         |-> ""]
         IN  educationLoop(lines, i + 1,
                           IF MatchString(degreeRegex, line) /\ degree # ""
                           THEN Append(education, entry) ELSE education)

extractEducation(text) == educationLoop(Split(text, "\n"), 0, <<>>)

shortMonthNames ==
    <<"Jan", "Feb", "Mar", "Apr", "May", "Jun", "Jul", "Aug", "Sep", "Oct", "Nov", "Dec">>
longMonthNames ==
    <<"January", "February", "March", "April", "May", "June", "July", "August",
      "September", "October", "November", "December">>

dateRegex ==
    LET month(m, century) ==
            LitFold(ToLower(shortMonthNames[m])) \o <<Star(LetterSet), Plus(ReSpace)>>
                \o Lit(century) \o <<Item(ReDigit, 2, 2)>>
    IN  [a \in 1..24 |-> month((a + 1) \div 2, IF a % 2 = 1 THEN "19" ELSE "20")]

\* The day number of 1 January of a year (1900 to 2099), counted from
\* 1 January 2020: the date parseDate yields for "Jan <year>".
Jan(year) == 365 * (year - 2020) + ((year - 2017) \div 4) + (IF year <= 1900 THEN 1 ELSE 0)

IsLeapYear(year) == year % 4 = 0 /\ (year % 100 # 0 \/ year % 400 = 0)
daysBefore == <<0, 31, 59, 90, 120, 151, 181, 212, 243, 273, 304, 334>>

\* The day number of the first day of a month.
Date(year, month) ==
    Jan(year) + daysBefore[month] + (IF month > 2 /\ IsLeapYear(year) THEN 1 ELSE 0)

\* The zero time.Time, 1 January of year 1.
ZeroTime == -737424

RECURSIVE cutspace(_)
cutspace(s) == IF Len(s) > 0 /\ CharAt(s, 1) = " " THEN cutspace(SubSeq(s, 2, Len(s))) ELSE s

\* time.Parse with layout "Jan 2006" (names = shortMonthNames) or
\* "January 2006" (names = longMonthNames): a month name in any case, any
\* number of spaces, a four-digit year, and nothing more.
timeParse(names, value) ==
    LET found == {m \in 1..12 : /\ Len(value) >= Len(names[m])
                                /\ ToLower(SubSeq(value, 1, Len(names[m]))) = ToLower(names[m])}
    IN  IF found = {} THEN [ok |-> FALSE, t |-> ZeroTime]
        ELSE LET month == CHOOSE m \in found : \A o \in found : m <= o
                 rest == SubSeq(value, Len(names[month]) + 1, Len(value))
                 digits == cutspace(rest)
             IN  IF /\ (Len(rest) > 0 => CharAt(rest, 1) = " ")
                    /\ Len(digits) = 4
                    /\ \A k \in 1..4 : CharAt(digits, k) \in DigitSet
                 THEN [ok |-> TRUE, t |-> Date(Atoi(digits), month)]
                 ELSE [ok |-> FALSE, t |-> ZeroTime]

\* The layouts "2006", "Jan 02, 2006" and "January 02, 2006" fit no string
\* that starts with a month name and ends after a four-digit year.
parseDate(dateStr) ==
    IF timeParse(shortMonthNames, dateStr).ok THEN timeParse(shortMonthNames, dateStr)
    ELSE timeParse(longMonthNames, dateStr)

RECURSIVE surroundingLoop(_, _, _, _)
surroundingLoop(lines, j, endIdx, experience) ==
    IF j >= endIdx THEN experience
    ELSE LET currentLine == TrimSpace(lines[j + 1])
         IN  surroundingLoop(lines, j + 1, endIdx,
                 IF Len(currentLine) > 2 /\ ~MatchString(dateRegex, currentLine)
                 THEN IF experience.Company = "" THEN [experience EXCEPT !.Company = currentLine]
                      ELSE IF experience.Position = "" THEN [experience EXCEPT !.Position = currentLine]
                      ELSE experience
                 ELSE experience)

RECURSIVE experienceLoop(_, _, _)
experienceLoop(lines, i, found) ==
    IF i >= Len(lines) THEN found
    ELSE LET line == lines[i + 1]
             dates == FindAllString(dateRegex, line)
             startDate == parseDate(dates[1])
             endDate == parseDate(dates[2])
             dated == [Company     |-> "",
                       Position    |-> "",
                       StartDate   |-> IF startDate.ok THEN startDate.t ELSE ZeroTime,
                       EndDate     |-> IF Len(dates) > 1 /\ endDate.ok THEN <<endDate.t>> ELSE Nil,
                       Description |-> "",
                       IsCurrent   |-> FALSE]
             startIdx == IF i - 2 < 0 THEN 0 ELSE i - 2
             endIdx == IF i + 3 > Len(lines) THEN Len(lines) ELSE i + 3
             experience == surroundingLoop(lines, startIdx, endIdx, dated)
         IN  experienceLoop(lines, i + 1,
                            IF MatchString(dateRegex, line) /\ experience.Company # ""
                            THEN Append(found, experience) ELSE found)

extractExperience(text) == experienceLoop(Split(text, "\n"), 0, <<>>)

skillKeywords ==
    <<"python", "java", "javascript", "typescript", "go", "golang", "rust", "c++", "c#",
      "react", "angular", "vue", "nodejs", "express", "django", "flask", "spring",
      "sql", "mysql", "postgresql", "mongodb", "redis", "elasticsearch",
      "aws", "azure", "gcp", "docker", "kubernetes", "terraform", "ansible",
      "git", "github", "gitlab", "jenkins", "ci/cd", "devops",
      "machine learning", "deep learning", "tensorflow", "pytorch", "scikit-learn",
      "html", "css", "bootstrap", "tailwind", "sass", "less">>

\* The dictionary entries the lower-cased text contains, in dictionary order.
foundSkills(text) ==
    LET textLower == ToLower(text)
    IN  SelectSeq(skillKeywords, LAMBDA skill : Contains(textLower, ToLower(skill)))

extractSkills(text) == RemoveDuplicates(foundSkills(text))

\* (?i)(project|projects?)[\s:]*
projectRegex ==
    <<LitFold("project") \o <<Star(ReSpace \cup {":"})>>,
      LitFold("project") \o <<Opt({"s", "S"}), Star(ReSpace \cup {":"})>> >>

RECURSIVE projectLinesLoop(_, _, _, _)
projectLinesLoop(lines, i, j, projects) ==
    IF ~(j < Len(lines) /\ j < i + 10) THEN projects
    ELSE LET projectLine == TrimSpace(lines[j + 1])
         IN  projectLinesLoop(lines, i, j + 1,
                 IF Len(projectLine) > 10
                 THEN Append(projects, [Name         |-> projectLine,
                                        Description  |-> projectLine,
                                        Technologies |-> <<>>])
                 ELSE projects)

RECURSIVE projectsLoop(_, _)
projectsLoop(lines, i) ==
    IF i >= Len(lines) THEN <<>>
    ELSE IF MatchString(projectRegex, lines[i + 1])
         THEN projectLinesLoop(lines, i, i + 1, <<>>)
         ELSE projectsLoop(lines, i + 1)

extractProjects(text) == projectsLoop(Split(text, "\n"), 0)

certRegex == <<LitFold("certification"), LitFold("certified"), LitFold("certificate")>>

RECURSIVE certificationsLoop(_, _, _)
certificationsLoop(lines, i, certifications) ==
    IF i >= Len(lines) THEN certifications
    ELSE LET cleanLine == TrimSpace(lines[i + 1])
         IN  certificationsLoop(lines, i + 1,
                 IF MatchString(certRegex, lines[i + 1]) /\ Len(cleanLine) > 5
                 THEN Append(certifications, cleanLine) ELSE certifications)

extractCertifications(text) == certificationsLoop(Split(text, "\n"), 0, <<>>)

\* \s{5,}
wideGapRegex == << <<AtLeast(ReSpace, 5)>> >>

\* [│┌┐└┘├┤┬┴┼]: box-drawing characters, which no ASCII text contains.
boxRegex == << <<One({})>> >>

analyzeFormat(text) ==
    LET lines == Split(text, "\n")
    IN  (IF Contains(text, "\t") \/ MatchString(wideGapRegex, text)
         THEN <<"Document may contain tables or complex formatting">> ELSE <<>>)
        \o (IF MatchString(boxRegex, text)
            THEN <<"Document contains table borders or special formatting">> ELSE <<>>)
        \o (IF \E k \in 1..Len(lines) : Len(Fields(lines[k])) > 10
            THEN <<"Possible multi-column layout detected">> ELSE <<>>)

\* The file is what the document library finds under filename.  The result
\* is the pair (resume, err): resume is <<>> for nil, err is "" for nil.
\* The extension is compared as written, without lower-casing.
ParseResume_CaseSensitive(filename, file) ==
    LET ext == Ext(filename)
        extracted == IF ext = ".pdf" THEN parsePDF(file) ELSE parseDOCX(file)
        text == extracted.text
    IN  IF ext \notin {".pdf", ".docx"}
        THEN [resume |-> <<>>, err |-> "unsupported file format: " \o ext]
        ELSE IF extracted.err # ""
        THEN [resume |-> <<>>, err |-> "failed to extract text: " \o extracted.err]
        ELSE [resume |-> <<[PersonalInfo   |-> extractPersonalInfo(text),
                            Education      |-> extractEducation(text),
                            Experience     |-> extractExperience(text),
                            Skills         |-> extractSkills(text),
                            Projects       |-> extractProjects(text),
                            Certifications |-> extractCertifications(text),
                            RawText        |-> text,
                            FormatIssues   |-> analyzeFormat(text)]>>,
              err |-> ""]

ParseResume(filename, file) ==
    LET ext == ToLower(Ext(filename))
        extracted == IF ext = ".pdf" THEN parsePDF(file) ELSE parseDOCX(file)
        text == extracted.text
    IN  IF ext \notin {".pdf", ".docx"}
        THEN [resume |-> <<>>, err |-> "unsupported file format: " \o ext]
        ELSE IF extracted.err # ""
        THEN [resume |-> <<>>, err |-> "failed to extract text: " \o extracted.err]
        ELSE [resume |-> <<[PersonalInfo   |-> extractPersonalInfo(text),
                            Education      |-> extractEducation(text),
                            Experience     |-> extractExperience(text),
                            Skills         |-> extractSkills(text),
                            Projects       |-> extractProjects(text),
                            Certifications |-> extractCertifications(text),
                            RawText        |-> text,
                            FormatIssues   |-> analyzeFormat(text)]>>,
              err |-> ""]

RECURSIVE titleLoop(_, _)
titleLoop(lines, i) ==
    IF i >= Len(lines) THEN ""
    ELSE LET cleanLine == TrimSpace(lines[i + 1])
         IN  IF Len(cleanLine) > 5 /\ Len(cleanLine) < 100 THEN cleanLine
             ELSE titleLoop(lines, i + 1)

extractJDTitle(text) == titleLoop(Split(text, "\n"), 0)

companyRegex ==
    <<LitFold("company"), LitFold("organization"), LitFold("corp"), LitFold("inc"), LitFold("ltd")>>

RECURSIVE companyLoop(_, _)
companyLoop(lines, i) ==
    IF i >= Len(lines) THEN ""
    ELSE IF MatchString(companyRegex, lines[i + 1]) THEN TrimSpace(lines[i + 1])
    ELSE companyLoop(lines, i + 1)

extractJDCompany(text) == companyLoop(Split(text, "\n"), 0)

extractJDSkills(text) == RemoveDuplicates(foundSkills(text))

\* (\d+)\s*\+?\s*year
expRegex ==
    << <<Plus(ReDigit), Star(ReSpace), Opt({"+"}), Star(ReSpace)>> \o Lit("year") >>

\* The digits of the first group: \d+ is followed by no digit, so it is the
\* whole run of digits at the start of the match.
extractJDExperience(text) ==
    LET lower == ToLower(text)
        m == FindFrom(expRegex, lower, 1)
    IN  IF m = NoMatch THEN 0
        ELSE Atoi(SubSeq(lower, m.start, m.start + RunLength(lower, m.start, ReDigit, -1) - 1))

extractJDEducation(text) == RemoveDuplicates(FindAllString(degreeRegex, text))

\* (?i)(location|based in|located in)[\s:]*([a-zA-Z\s,]+)
locationWords == <<"location", "based in", "located in">>
locationClass == LetterSet \cup ReSpace \cup {","}
locationRegex ==
    [a \in 1..Len(locationWords) |->
        LitFold(locationWords[a]) \o <<Star(ReSpace \cup {":"}), Plus(locationClass)>>]

\* The second group starts after the longest run of [\s:] that leaves it a
\* character to match.
extractJDLocation(text) ==
    LET m == FindFrom(locationRegex, text, 1)
    IN  IF m = NoMatch THEN ""
        ELSE LET word == CHOOSE a \in 1..Len(locationWords) :
                             MatchItems(LitFold(locationWords[a]), 1, text, m.start) # -1
                 base == m.start + Len(locationWords[word])
                 run == RunLength(text, base, ReSpace \cup {":"}, -1)
                 taken == CHOOSE n \in 0..run :
                             /\ MatchItems(<<Plus(locationClass)>>, 1, text, base + n) # -1
                             /\ \A o \in (n + 1)..run :
                                    MatchItems(<<Plus(locationClass)>>, 1, text, base + o) = -1
             IN  TrimSpace(SubSeq(text, base + taken, m.after - 1))

\* The results a call can have, one for each list ExtractKeywords can return;
\* err is always nil ("").
ParseJobDescription(text) ==
    {[jd |-> <<[Title           |-> extractJDTitle(text),
                Company         |-> extractJDCompany(text),
                RequiredSkills  |-> extractJDSkills(text),
                PreferredSkills |-> <<>>,
                MinExperience   |-> extractJDExperience(text),
                Education       |-> extractJDEducation(text),
                Location        |-> extractJDLocation(text),
                Description     |-> "",
                Keywords        |-> keywords,
                RawText         |-> text]>>,
      err |-> ""] : keywords \in ExtractKeywords(text, 20)}

(***************************************************************************)
(* Bounds and input pools.                                                 *)
(***************************************************************************)
MaxLen == 3
MaxSkills == 2

Alphabet == {"a", "b"}

RECURSIVE StringsUpTo(_)
StringsUpTo(n) ==
    IF n = 0 THEN {""}
    ELSE LET P == StringsUpTo(n - 1) IN P \cup {p \o c : p \in P, c \in Alphabet}

RECURSIVE SeqsUpTo(_, _)
SeqsUpTo(S, n) ==
    IF n = 0 THEN {<<>>}
    ELSE LET P == SeqsUpTo(S, n - 1) IN P \cup {Append(p, x) : p \in P, x \in S}

\* Skill texts as found by the extractors, before RemoveDuplicates.
ResumeSkillPool == {"python", "java", "Python", "javas", ""}
JobSkillPool == {"python", "go", "pythons", "java", " go"}

NoRat == <<0, 1>>
NoSkillResult == [Percentage |-> NoRat, Matched |-> <<>>, Missing |-> <<>>]
NoResume == <<>>
NoResult == <<>>
NoArgs == <<>>
NoRet == <<>>
\* An empty uploads/ directory, and no request being handled.
NoFiles == <<>>
NoHandlers == <<>>
\* The zero JobDescription, for a resume analysed without one.
NoJobDesc ==
    [RequiredSkills |-> <<>>, PreferredSkills |-> <<>>, MinExperience |-> 0, Education |-> <<>>]

MaxEdu == 1
MaxExp == 1

NowPool == {Jan(2025)}

PersonalInfoPool ==
    {[Email |-> e, Phone |-> ph] : e \in {"", "john@example.com"}, ph \in {"", "555-123-4567"}}

DegreePool == {"Bachelor", "B.S."}
EducationPool == {[Degree |-> d, Year |-> 2020] : d \in DegreePool}

\* A two-year job, an entry that ends before it starts, and a current entry
\* whose start lies after the clock.
ExperiencePool ==
    {[StartDate |-> Jan(2020), EndDate |-> <<Jan(2022)>>],
     [StartDate |-> Jan(2022), EndDate |-> <<Jan(2020)>>],
     [StartDate |-> Jan(2026), EndDate |-> Nil]}

ResumeSkillLists == {<<>>, <<"python">>, <<"python", "java">>}

\* Raw text with the format issues analyzeFormat reports for it.
TextPool ==
    {[RawText |-> "Managed a small team", FormatIssues |-> <<>>],
     [RawText |-> "Improved sales\tby 20%",
      FormatIssues |-> <<"Document may contain tables or complex formatting">>]}

ProjectPool == {<<>>, <<[Name |-> "Resume scorer in Go", Description |-> "Resume scorer in Go"]>>}
CertificationPool == {<<>>, <<"AWS Certified Developer">>}

Resumes(projects, certifications) ==
    {[PersonalInfo   |-> pi,
      Education      |-> edu,
      Experience     |-> exp,
      Skills         |-> sk,
      Projects       |-> pr,
      Certifications |-> ce,
      RawText        |-> txt.RawText,
      FormatIssues   |-> txt.FormatIssues] :
        pi \in PersonalInfoPool, edu \in SeqsUpTo(EducationPool, MaxEdu),
        exp \in SeqsUpTo(ExperiencePool, MaxExp), sk \in ResumeSkillLists,
        pr \in projects, ce \in certifications, txt \in TextPool}

JobSkillLists ==
    {[Required |-> <<>>, Preferred |-> <<>>],
     [Required |-> <<"python">>, Preferred |-> <<>>],
     [Required |-> <<"python", "go">>, Preferred |-> <<>>],
     [Required |-> <<"python">>, Preferred |-> <<"go", "python">>]}

MinExperiencePool == {0, 2, 5}
RequiredEducationLists == {<<>>, <<"bachelor">>, <<"master">>}

JobDescs ==
    {[RequiredSkills  |-> js.Required,
      PreferredSkills |-> js.Preferred,
      MinExperience   |-> me,
      Education       |-> ed] :
        js \in JobSkillLists, me \in MinExperiencePool, ed \in RequiredEducationLists}

(***************************************************************************)
(* Specification SpecSim: calculateStringSimilarity on two strings.        *)
(***************************************************************************)
InitSim ==
    /\ s1 \in StringsUpTo(MaxLen)
    /\ s2 \in StringsUpTo(MaxLen)
    /\ similarity = NoRat
    /\ resumeSkills = <<>> /\ jobSkills = <<>> /\ skillResult = NoSkillResult
    /\ resume = NoResume /\ jobDesc = NoJobDesc /\ now = 0 /\ result = NoResult
    /\ args = NoArgs /\ ret = NoRet
    /\ uploads = NoFiles /\ handler = NoHandlers
    /\ pc = "start"

StringSimilarity ==
    /\ pc = "start"
    /\ similarity' = calculateStringSimilarity(s1, s2)
    /\ pc' = "done"
    /\ UNCHANGED <<uploads, handler, s1, s2, resumeSkills, jobSkills, skillResult, resume, jobDesc, now, result, args, ret>>

NextSim == StringSimilarity

SpecSim == InitSim /\ [][NextSim]_vars

(***************************************************************************)
(* Specification SpecSkill: CalculateSkillMatch on two skill lists, each   *)
(* the output of RemoveDuplicates as in extractSkills / calculateSkillMatch.*)
(***************************************************************************)
InitSkill ==
    /\ \E raw \in SeqsUpTo(ResumeSkillPool, MaxSkills) : resumeSkills = RemoveDuplicates(raw)
    /\ \E raw \in SeqsUpTo(JobSkillPool, MaxSkills) : jobSkills = RemoveDuplicates(raw)
    /\ skillResult = NoSkillResult
    /\ s1 = "" /\ s2 = "" /\ similarity = NoRat
    /\ resume = NoResume /\ jobDesc = NoJobDesc /\ now = 0 /\ result = NoResult
    /\ args = NoArgs /\ ret = NoRet
    /\ uploads = NoFiles /\ handler = NoHandlers
    /\ pc = "start"

SkillMatch ==
    /\ pc = "start"
    /\ skillResult' = CalculateSkillMatch(resumeSkills, jobSkills)
    /\ pc' = "done"
    /\ UNCHANGED <<uploads, handler, s1, s2, similarity, resumeSkills, jobSkills, resume, jobDesc, now, result, args, ret>>

NextSkill == SkillMatch

SpecSkill == InitSkill /\ [][NextSkill]_vars

(***************************************************************************)
(* Specification SpecNlp: CalculateSkillMatch on two skill lists, or       *)
(* CalculateCosineSimilarity on two texts.                                 *)
(***************************************************************************)
EmptyTexts == {""}
StopWordTexts == {"the and", "You must, with US!"}
ShortTokenTexts == {"go c 42", "Of ab: to-do"}
NoTokenTexts == EmptyTexts \cup StopWordTexts \cup ShortTokenTexts
TokenTexts == {"python", "Python and Java", "java python; python", "golang"}
CosineTexts == NoTokenTexts \cup TokenTexts

InitCosine ==
    /\ args \in [text1 : CosineTexts, text2 : CosineTexts]
    /\ ret = NoRet
    /\ uploads = NoFiles /\ handler = NoHandlers
    /\ s1 = "" /\ s2 = "" /\ similarity = NoRat
    /\ resumeSkills = <<>> /\ jobSkills = <<>> /\ skillResult = NoSkillResult
    /\ resume = NoResume /\ jobDesc = NoJobDesc /\ now = 0 /\ result = NoResult
    /\ pc = "CalculateCosineSimilarity"

CosineSimilarity ==
    /\ pc = "CalculateCosineSimilarity"
    /\ ret' = CalculateCosineSimilarity(args.text1, args.text2)
    /\ pc' = "cosineDone"
    /\ UNCHANGED <<uploads, handler, s1, s2, similarity, resumeSkills, jobSkills, skillResult,
                   resume, jobDesc, now, result, args>>

InitNlp == InitSkill \/ InitCosine

NextNlp == SkillMatch \/ CosineSimilarity

SpecNlp == InitNlp /\ [][NextNlp]_vars

(***************************************************************************)
(* Specification Spec: the scorer.  A resume is analysed against a job     *)
(* description (AnalyzeResume) or on its own (AnalyzeResumeStandalone).    *)
(* AnalyzeResume reads neither Projects nor Certifications, so these vary  *)
(* only for the standalone call.  The clock is read when the call is made. *)
(***************************************************************************)
Init ==
    /\ \/ /\ pc = "AnalyzeResume"
          /\ resume \in Resumes({<<>>}, {<<>>})
          /\ jobDesc \in JobDescs
       \/ /\ pc = "AnalyzeResumeStandalone"
          /\ resume \in Resumes(ProjectPool, CertificationPool)
          /\ jobDesc = NoJobDesc
    /\ now \in NowPool
    /\ result = NoResult
    /\ s1 = "" /\ s2 = "" /\ similarity = NoRat
    /\ resumeSkills = <<>> /\ jobSkills = <<>> /\ skillResult = NoSkillResult
    /\ args = NoArgs /\ ret = NoRet
    /\ uploads = NoFiles /\ handler = NoHandlers

DoAnalyzeResume ==
    /\ pc = "AnalyzeResume"
    /\ result' = AnalyzeResume(resume, jobDesc, now)
    /\ pc' = "analyzed"
    /\ UNCHANGED <<uploads, handler, s1, s2, similarity, resumeSkills, jobSkills, skillResult, resume, jobDesc, now, args, ret>>

DoAnalyzeResumeStandalone ==
    /\ pc = "AnalyzeResumeStandalone"
    /\ result' = AnalyzeResumeStandalone(resume, now)
    /\ pc' = "analyzedStandalone"
    /\ UNCHANGED <<uploads, handler, s1, s2, similarity, resumeSkills, jobSkills, skillResult, resume, jobDesc, now, args, ret>>

Next == DoAnalyzeResume \/ DoAnalyzeResumeStandalone

Spec == Init /\ [][Next]_vars

Analyzed == pc \in {"analyzed", "analyzedStandalone"}

(***************************************************************************)
(* Specification SpecRepeat: the same resume (and job description) is      *)
(* analysed twice; the clock may advance between the two calls.            *)
(***************************************************************************)
LaterNowPool == {Jan(2027)}

\* The entries of ExperiencePool and a current job started before the clock.
RepeatExperiencePool ==
    ExperiencePool \cup {[StartDate |-> Jan(2023), EndDate |-> Nil]}

RepeatResumes ==
    {[r EXCEPT !.Experience = exp] :
        r \in {b \in Resumes({<<>>}, {<<>>}) :
                  b.Experience = <<>> /\ b.Education = <<>> /\ b.Skills = <<"python">>},
        exp \in SeqsUpTo(RepeatExperiencePool, MaxExp)}

RepeatJobDescs ==
    {jd \in JobDescs : jd.RequiredSkills = <<"python">> /\ jd.PreferredSkills = <<>>
                          /\ jd.Education = <<>>}

InitRepeat ==
    /\ \/ /\ pc = "AnalyzeResume"
          /\ resume \in RepeatResumes
          /\ jobDesc \in RepeatJobDescs
       \/ /\ pc = "AnalyzeResumeStandalone"
          /\ resume \in RepeatResumes
          /\ jobDesc = NoJobDesc
    /\ now \in NowPool
    /\ result = NoResult
    /\ s1 = "" /\ s2 = "" /\ similarity = NoRat
    /\ resumeSkills = <<>> /\ jobSkills = <<>> /\ skillResult = NoSkillResult
    /\ args = NoArgs /\ ret = NoRet
    /\ uploads = NoFiles /\ handler = NoHandlers

\* Time passes between the two calls.
ClockAdvance ==
    /\ pc \in {"analyzed", "analyzedStandalone"}
    /\ now \in NowPool
    /\ now' \in LaterNowPool
    /\ UNCHANGED <<uploads, handler, s1, s2, similarity, resumeSkills, jobSkills, skillResult,
                   resume, jobDesc, result, args, ret, pc>>

AnalyzeResumeAgain ==
    /\ pc = "analyzed"
    /\ ret' = AnalyzeResume(resume, jobDesc, now)
    /\ pc' = "analyzedAgain"
    /\ UNCHANGED <<uploads, handler, s1, s2, similarity, resumeSkills, jobSkills, skillResult,
                   resume, jobDesc, now, result, args>>

AnalyzeResumeStandaloneAgain ==
    /\ pc = "analyzedStandalone"
    /\ ret' = AnalyzeResumeStandalone(resume, now)
    /\ pc' = "analyzedStandaloneAgain"
    /\ UNCHANGED <<uploads, handler, s1, s2, similarity, resumeSkills, jobSkills, skillResult,
                   resume, jobDesc, now, result, args>>

NextRepeat ==
    \/ DoAnalyzeResume
    \/ DoAnalyzeResumeStandalone
    \/ ClockAdvance
    \/ AnalyzeResumeAgain
    \/ AnalyzeResumeStandaloneAgain

SpecRepeat == InitRepeat /\ [][NextRepeat]_vars

AnalyzedAgain == pc \in {"analyzedAgain", "analyzedStandaloneAgain"}

(***************************************************************************)
(* Specification SpecParse: ParseResume on a file name and the file found  *)
(* under it, or ParseJobDescription on a text.                             *)
(***************************************************************************)
MaxPages == 1

FilenamePool ==
    {"cv.pdf", "CV.PDF", "uploads/17_cv.docx", "cv.Docx", "cv.txt", "cv", "cv.pdf.bak", "cv.pdf/x"}

PageTexts ==
    {"",
     "@@ ((\t~ 12",
     "John Doe\njohn@example.com\n555-123-4567\nBachelor of Science 2019\nState University\nAcme Corp\nEngineer\nJan 2020 - Jan 2022\nSkills: Python, Go\nProjects\nResume scorer in Go\nAWS Certified Developer",
     "jane@example.org\nSept 2021 to now\nBuilt tools in Rust"}

\* A file that cannot be opened, or one with up to MaxPages pages, each
\* readable or not.
FilePool ==
    {[openError |-> TRUE, pages |-> <<>>]}
        \cup {[openError |-> FALSE, pages |-> p] :
                 p \in SeqsUpTo({<<t>> : t \in PageTexts} \cup {<<>>}, MaxPages)}

JobTexts ==
    {"",
     "  \n",
     "@@ 12 ((",
     "Go developer, 3+ years\nLocation: Berlin",
     "Acme Corp\nM.S., 5 years Go"}

InitParse ==
    /\ \/ /\ pc = "ParseResume"
          /\ args \in [filename : FilenamePool, file : FilePool]
       \/ /\ pc = "ParseJobDescription"
          /\ args \in [text : JobTexts]
    /\ ret = NoRet
    /\ uploads = NoFiles /\ handler = NoHandlers
    /\ s1 = "" /\ s2 = "" /\ similarity = NoRat
    /\ resumeSkills = <<>> /\ jobSkills = <<>> /\ skillResult = NoSkillResult
    /\ resume = NoResume /\ jobDesc = NoJobDesc /\ now = 0 /\ result = NoResult

DoParseResume ==
    /\ pc = "ParseResume"
    /\ ret' = ParseResume(args.filename, args.file)
    /\ pc' = "parsed"
    /\ UNCHANGED <<uploads, handler, s1, s2, similarity, resumeSkills, jobSkills, skillResult,
                   resume, jobDesc, now, result, args>>

DoParseJobDescription ==
    /\ pc = "ParseJobDescription"
    /\ \E parsed \in ParseJobDescription(args.text) : ret' = parsed
    /\ pc' = "parsedJD"
    /\ UNCHANGED <<uploads, handler, s1, s2, similarity, resumeSkills, jobSkills, skillResult,
                   resume, jobDesc, now, result, args>>

NextParse == DoParseResume \/ DoParseJobDescription

SpecParse == InitParse /\ [][NextParse]_vars

(***************************************************************************)
(* Specification SpecKeywords: ExtractKeywords on a text of up to MaxWords *)
(* words.                                                                  *)
(***************************************************************************)
MaxWords == 3

WordPool == {"python", "java", "Java", "the"}
TopKPool == {0, 1, 2, 20}

KeywordTexts == {Join(words, " ") : words \in SeqsUpTo(WordPool, MaxWords)}

InitKeywords ==
    /\ args \in [text : KeywordTexts, topK : TopKPool]
    /\ ret = NoRet
    /\ uploads = NoFiles /\ handler = NoHandlers
    /\ s1 = "" /\ s2 = "" /\ similarity = NoRat
    /\ resumeSkills = <<>> /\ jobSkills = <<>> /\ skillResult = NoSkillResult
    /\ resume = NoResume /\ jobDesc = NoJobDesc /\ now = 0 /\ result = NoResult
    /\ pc = "ExtractKeywords"

DoExtractKeywords ==
    /\ pc = "ExtractKeywords"
    /\ \E keywords \in ExtractKeywords(args.text, args.topK) : ret' = keywords
    /\ pc' = "extracted"
    /\ UNCHANGED <<uploads, handler, s1, s2, similarity, resumeSkills, jobSkills, skillResult,
                   resume, jobDesc, now, result, args>>

NextKeywords == DoExtractKeywords

SpecKeywords == InitKeywords /\ [][NextKeywords]_vars

(***************************************************************************)
(* Specification SpecDedup: RemoveDuplicates on a list of up to MaxItems   *)
(* strings.                                                                *)
(***************************************************************************)
MaxItems == 3

ItemPool == {"go", " go", "go\t", "", " \n", "java", "Go", "c  c"}

InitDedup ==
    /\ args \in [slice : SeqsUpTo(ItemPool, MaxItems)]
    /\ ret = NoRet
    /\ uploads = NoFiles /\ handler = NoHandlers
    /\ s1 = "" /\ s2 = "" /\ similarity = NoRat
    /\ resumeSkills = <<>> /\ jobSkills = <<>> /\ skillResult = NoSkillResult
    /\ resume = NoResume /\ jobDesc = NoJobDesc /\ now = 0 /\ result = NoResult
    /\ pc = "RemoveDuplicates"

DoRemoveDuplicates ==
    /\ pc = "RemoveDuplicates"
    /\ ret' = RemoveDuplicates(args.slice)
    /\ pc' = "deduplicated"
    /\ UNCHANGED <<uploads, handler, s1, s2, similarity, resumeSkills, jobSkills, skillResult,
                   resume, jobDesc, now, result, args>>

NextDedup == DoRemoveDuplicates

SpecDedup == InitDedup /\ [][NextDedup]_vars

(***************************************************************************)
(* Specification SpecFormat: calculateFormatScore on resumes whose raw     *)
(* text is short or around a thousand words long.                          *)
(***************************************************************************)
\* n copies of the string u, built by halves.
RECURSIVE Repeat(_, _)
Repeat(u, n) ==
    IF n = 0 THEN ""
    ELSE LET half == Repeat(u, n \div 2)
         IN  half \o half \o (IF n % 2 = 1 THEN u ELSE "")

\* n one-letter words, sep between each two.
WordsText(n, sep) == Repeat("w" \o sep, n - 1) \o "w"

IssueTables == "Document may contain tables or complex formatting"
IssueColumns == "Possible multi-column layout detected"

\* Raw texts with the format issues analyzeFormat reports for them: a line
\* of more than ten words counts as multi-column, a tab as a table.
LengthTextPool ==
    {[RawText |-> WordsText(2, " "), FormatIssues |-> <<>>],
     [RawText |-> WordsText(TooLongWords, " "), FormatIssues |-> <<IssueColumns>>],
     [RawText |-> WordsText(TooLongWords + 1, " "), FormatIssues |-> <<IssueColumns>>],
     [RawText |-> WordsText(TooLongWords \div 2 + 1, "  "), FormatIssues |-> <<IssueColumns>>],
     [RawText |-> WordsText(TooLongWords + 1, "\n"), FormatIssues |-> <<>>],
     [RawText |-> WordsText(TooLongWords + 1, "\t"), FormatIssues |-> <<IssueTables, IssueColumns>>],
     [RawText |-> WordsText(TooLongWords + 1, " \n"), FormatIssues |-> <<>>]}

FormatResumes ==
    {[PersonalInfo   |-> pi,
      Education      |-> edu,
      Experience     |-> exp,
      Skills         |-> sk,
      Projects       |-> <<>>,
      Certifications |-> <<>>,
      RawText        |-> txt.RawText,
      FormatIssues   |-> txt.FormatIssues] :
        pi \in PersonalInfoPool,
        edu \in {<<>>, <<[Degree |-> "Bachelor", Year |-> 2020]>>},
        exp \in {<<>>, <<[StartDate |-> Jan(2020), EndDate |-> <<Jan(2022)>>]>>},
        sk \in {<<>>, <<"python">>},
        txt \in LengthTextPool}

InitFormat ==
    /\ resume \in FormatResumes
    /\ jobDesc = NoJobDesc /\ now = 0 /\ result = NoResult
    /\ args = NoArgs /\ ret = NoRet
    /\ uploads = NoFiles /\ handler = NoHandlers
    /\ s1 = "" /\ s2 = "" /\ similarity = NoRat
    /\ resumeSkills = <<>> /\ jobSkills = <<>> /\ skillResult = NoSkillResult
    /\ pc = "calculateFormatScore"

DoCalculateFormatScore ==
    /\ pc = "calculateFormatScore"
    /\ ret' = calculateFormatScore(resume)
    /\ pc' = "formatScored"
    /\ UNCHANGED <<uploads, handler, s1, s2, similarity, resumeSkills, jobSkills, skillResult,
                   resume, jobDesc, now, result, args>>

NextFormat == DoCalculateFormatScore

SpecFormat == InitFormat /\ [][NextFormat]_vars

(***************************************************************************)
(* Specification SpecSuggest: AnalyzeResume on job descriptions with up to *)
(* eight skills, so that the lists of missing skills get cut, and on       *)
(* resumes with up to two parser issues and a long text.                   *)
(***************************************************************************)
IssueBorders == "Document contains table borders or special formatting"

\* The second text stands for one with box-drawing characters, written "|".
SuggestTextPool ==
    TextPool
        \cup {[RawText |-> "| Reduced cost |\t| 5% |", FormatIssues |-> <<IssueTables, IssueBorders>>],
              [RawText |-> WordsText(TooLongWords + 1, " "), FormatIssues |-> <<IssueColumns>>]}

SuggestResumes ==
    {[PersonalInfo   |-> pi,
      Education      |-> edu,
      Experience     |-> exp,
      Skills         |-> sk,
      Projects       |-> <<>>,
      Certifications |-> <<>>,
      RawText        |-> txt.RawText,
      FormatIssues   |-> txt.FormatIssues] :
        pi \in PersonalInfoPool,
        edu \in {<<>>, <<[Degree |-> "Bachelor", Year |-> 2020]>>},
        exp \in {<<>>, <<[StartDate |-> Jan(2020), EndDate |-> <<Jan(2022)>>]>>},
        sk \in {<<>>, <<"python">>, <<"python", "java", "go", "rust">>},
        txt \in SuggestTextPool}

SuggestJobDescs ==
    {[RequiredSkills  |-> req,
      PreferredSkills |-> <<>>,
      MinExperience   |-> me,
      Education       |-> ed] :
        req \in {<<>>,
                 <<"python", "go">>,
                 <<"aws", "azure", "gcp", "docker", "redis", "sql">>,
                 <<"python", "aws", "java", "azure", "go", "gcp", "rust", "docker">>},
        me \in {0, 5},
        ed \in {<<>>, <<"master">>}}

InitSuggest ==
    /\ pc = "AnalyzeResume"
    /\ resume \in SuggestResumes
    /\ jobDesc \in SuggestJobDescs
    /\ now \in NowPool
    /\ result = NoResult
    /\ s1 = "" /\ s2 = "" /\ similarity = NoRat
    /\ resumeSkills = <<>> /\ jobSkills = <<>> /\ skillResult = NoSkillResult
    /\ args = NoArgs /\ ret = NoRet
    /\ uploads = NoFiles /\ handler = NoHandlers

NextSuggest == DoAnalyzeResume

SpecSuggest == InitSuggest /\ [][NextSuggest]_vars

(***************************************************************************)
(* Specification SpecStandalone: AnalyzeResumeStandalone on resumes with   *)
(* 0, 5 or 16 skills, with jobs of two years, of half a year and of a      *)
(* negative length, and with the texts of SuggestTextPool.                 *)
(***************************************************************************)
StandaloneExperiencePool ==
    {<<>>,
     <<[StartDate |-> Jan(2020), EndDate |-> <<Jan(2022)>>]>>,
     <<[StartDate |-> Jan(2024), EndDate |-> <<Jan(2024) + 182>>]>>,
     <<[StartDate |-> Jan(2022), EndDate |-> <<Jan(2020)>>]>>}

\* No skill, five skills, and sixteen skills, which is past the fourteen that
\* fill the skill bonus.
StandaloneSkillLists ==
    {<<>>,
     <<"python", "java", "go", "rust", "sql">>,
     <<"python", "java", "go", "rust", "sql", "aws", "azure", "gcp", "docker", "redis",
       "git", "linux", "react", "angular", "vue", "django">>}

StandaloneResumes ==
    {[PersonalInfo   |-> pi,
      Education      |-> edu,
      Experience     |-> exp,
      Skills         |-> sk,
      Projects       |-> pr,
      Certifications |-> ce,
      RawText        |-> txt.RawText,
      FormatIssues   |-> txt.FormatIssues] :
        pi \in PersonalInfoPool,
        edu \in {<<>>, <<[Degree |-> "Bachelor", Year |-> 2020]>>},
        exp \in StandaloneExperiencePool,
        sk \in StandaloneSkillLists,
        pr \in ProjectPool, ce \in CertificationPool,
        txt \in SuggestTextPool}

InitStandalone ==
    /\ pc = "AnalyzeResumeStandalone"
    /\ resume \in StandaloneResumes
    /\ jobDesc = NoJobDesc
    /\ now \in NowPool
    /\ result = NoResult
    /\ s1 = "" /\ s2 = "" /\ similarity = NoRat
    /\ resumeSkills = <<>> /\ jobSkills = <<>> /\ skillResult = NoSkillResult
    /\ args = NoArgs /\ ret = NoRet
    /\ uploads = NoFiles /\ handler = NoHandlers

NextStandalone == DoAnalyzeResumeStandalone

SpecStandalone == InitStandalone /\ [][NextStandalone]_vars

(***************************************************************************)
(* Specification SpecName: extractPersonalInfo on texts of a few lines,    *)
(* and on texts whose only name-like line is the sixth or the seventh.     *)
(***************************************************************************)
MaxLines == 2

\* Lines of 2, 3, 49, 50 and 51 letters, a line with a digit, an address, a
\* phone number, a padded name and an empty line.
NameLinePool ==
    {"Al", "Bob", Repeat("a", 49), Repeat("b", 50), Repeat("c", 51),
     "R2 D2", "john@example.com", "555-123-4567", "  Dr. Jane Doe \t", ""}

NameTexts ==
    {Join(lines, "\n") : lines \in SeqsUpTo(NameLinePool, MaxLines)}
        \cup {Repeat("2024\n", 5) \o "Eve Adams", Repeat("2024\n", 6) \o "Eve Adams"}

InitName ==
    /\ args \in [text : NameTexts]
    /\ ret = NoRet
    /\ uploads = NoFiles /\ handler = NoHandlers
    /\ s1 = "" /\ s2 = "" /\ similarity = NoRat
    /\ resumeSkills = <<>> /\ jobSkills = <<>> /\ skillResult = NoSkillResult
    /\ resume = NoResume /\ jobDesc = NoJobDesc /\ now = 0 /\ result = NoResult
    /\ pc = "extractPersonalInfo"

DoExtractPersonalInfo ==
    /\ pc = "extractPersonalInfo"
    /\ ret' = extractPersonalInfo(args.text)
    /\ pc' = "personalInfoExtracted"
    /\ UNCHANGED <<uploads, handler, s1, s2, similarity, resumeSkills, jobSkills, skillResult,
                   resume, jobDesc, now, result, args>>

NextName == DoExtractPersonalInfo

SpecName == InitName /\ [][NextName]_vars

(***************************************************************************)
(* Specification SpecProjects: extractProjects on texts with or without a  *)
(* project heading, followed by up to MaxBody lines.                       *)
(***************************************************************************)
MaxBody == 11

\* The k-th body line: longer than 10 characters, or a short one at the even
\* places when short lines are mixed in.
BodyLine(k, mixed) ==
    IF mixed /\ k % 2 = 0 THEN "tools " \o CharAt("abcdefghijklmnopqrstuvwxyz", ((k - 1) % 26) + 1)
    ELSE "  Built scorer " \o CharAt("abcdefghijklmnopqrstuvwxyz", ((k - 1) % 26) + 1) \o " "

ProjectTexts ==
    {Join(pre \o head \o [k \in 1..n |-> BodyLine(k, mixed)] \o post, "\n") :
        pre \in {<<>>, <<"Jane Doe", "Skills: go">>},
        head \in {<<>>, <<"Projects">>, <<"PROJECT: ">>, <<"Side projects I led">>},
        n \in 0..MaxBody,
        mixed \in BOOLEAN,
        post \in {<<>>, <<"Other Projects", "Wrote a parser in Go">>}}

InitProjects ==
    /\ args \in [text : ProjectTexts]
    /\ ret = NoRet
    /\ uploads = NoFiles /\ handler = NoHandlers
    /\ s1 = "" /\ s2 = "" /\ similarity = NoRat
    /\ resumeSkills = <<>> /\ jobSkills = <<>> /\ skillResult = NoSkillResult
    /\ resume = NoResume /\ jobDesc = NoJobDesc /\ now = 0 /\ result = NoResult
    /\ pc = "extractProjects"

DoExtractProjects ==
    /\ pc = "extractProjects"
    /\ ret' = extractProjects(args.text)
    /\ pc' = "projectsExtracted"
    /\ UNCHANGED <<uploads, handler, s1, s2, similarity, resumeSkills, jobSkills, skillResult,
                   resume, jobDesc, now, result, args>>

NextProjects == DoExtractProjects

SpecProjects == InitProjects /\ [][NextProjects]_vars

(***************************************************************************)
(* handlers/analyzer.go: the HTTP handler AnalyzeResume.  Each request is  *)
(* handled by its own goroutine; the requests share the uploads/ directory *)
(* and the clock.  uploads maps the paths of the files in the directory to *)
(* their content, handler[r] is the state of the goroutine of request r.   *)
(***************************************************************************)
RECURSIVE baseLoop(_, _)
baseLoop(path, i) ==
    IF i < 1 THEN path
    ELSE IF CharAt(path, i) = "/" THEN SubSeq(path, i + 1, Len(path))
    ELSE baseLoop(path, i - 1)

\* filepath.Base of a path that does not end in a slash.
Base(path) == IF path = "" THEN "." ELSE baseLoop(path, Len(path))

IsValidResumeFile(filename) == ToLower(Ext(filename)) \in {".pdf", ".docx"}

\* time.Now().Unix(), with the clock in seconds.
GenerateTimestamp(clock) == clock

\* os.Remove of the path if there is such a file.
CleanupFile(filename, files) ==
    IF filename = "" THEN files
    ELSE [p \in DOMAIN files \ {filename} |-> files[p]]

\* The file written at the path, replacing what was there.
WriteFile(filename, content, files) ==
    [p \in DOMAIN files \cup {filename} |-> IF p = filename THEN content ELSE files[p]]

\* What ParseResume finds at the path: a missing file does not open.
ReadFile(filename, files) ==
    IF filename \in DOMAIN files THEN files[filename]
    ELSE [openError |-> TRUE, pages |-> <<>>]

\* The day of the scorer's clock at a Unix time.
DayOf(seconds) == (seconds \div 86400) + Jan(1970)
UnixTime(day) == (day - Jan(1970)) * 86400

Returned(status, body) == [status |-> status, body |-> body]
NoResponse == <<>>

MaxRequests == 2
MaxSeconds == 1

Requests == 1..MaxRequests

\* A file that opens and one that does not.
GoodContent == [openError |-> FALSE, pages |-> << <<"Go, SQL">> >>]
BadContent == [openError |-> TRUE, pages |-> <<>>]

UploadedFilePool ==
    {[Filename |-> "cv.pdf", content |-> GoodContent],
     [Filename |-> "cv.pdf", content |-> BadContent],
     [Filename |-> "notes.txt", content |-> GoodContent]}

\* A request: a form that does not parse, or a form with or without a file
\* and with or without a job description.
FormPool ==
    {[err |-> TRUE, File |-> <<>>, job_description |-> ""],
     [err |-> FALSE, File |-> <<>>, job_description |-> "Go"]}
        \cup {[err |-> FALSE, File |-> <<u>>, job_description |-> "Go"] :
                 u \in UploadedFilePool}
        \cup {[err |-> FALSE, File |-> <<u>>, job_description |-> ""] :
                 u \in {v \in UploadedFilePool : v.content = GoodContent /\ v.Filename = "cv.pdf"}}

InitHandler ==
    /\ handler \in [Requests -> {[pc |-> "AnalyzeResume", form |-> f, filename |-> "",
                                  resume |-> NoResume, response |-> NoResponse] : f \in FormPool}]
    /\ uploads = NoFiles
    /\ now = UnixTime(Jan(2025))
    /\ s1 = "" /\ s2 = "" /\ similarity = NoRat
    /\ resumeSkills = <<>> /\ jobSkills = <<>> /\ skillResult = NoSkillResult
    /\ resume = NoResume /\ jobDesc = NoJobDesc /\ result = NoResult
    /\ args = NoArgs /\ ret = NoRet
    /\ pc = "serving"

HandlerUnchanged ==
    UNCHANGED <<s1, s2, similarity, resumeSkills, jobSkills, skillResult,
                resume, jobDesc, result, args, ret, pc>>

\* part_000 19-53: the form is read and checked, the path is made.
ReceiveForm(r) ==
    LET h == handler[r]
        form == h.form
    IN  /\ h.pc = "AnalyzeResume"
        /\ handler' = [handler EXCEPT ![r] =
               IF form.err
               THEN [h EXCEPT !.pc = "returned",
                              !.response = Returned(400, "Failed to parse form data")]
               ELSE IF Len(form.File) = 0
               THEN [h EXCEPT !.pc = "returned",
                              !.response = Returned(400, "Resume file is required")]
               ELSE IF ~IsValidResumeFile(form.File[1].Filename)
               THEN [h EXCEPT !.pc = "returned",
                              !.response = Returned(400, "Invalid file format. Only PDF and DOCX files are supported")]
               ELSE [h EXCEPT !.pc = "SaveUploadedFile",
                              !.filename = "uploads/" \o ToString(GenerateTimestamp(now))
                                               \o "_" \o Base(form.File[1].Filename)]]
        /\ UNCHANGED <<uploads, now>>
        /\ HandlerUnchanged

\* part_000 55-61: the file is written, or the write fails.
SaveUploadedFile(r) ==
    LET h == handler[r]
    IN  /\ h.pc = "SaveUploadedFile"
        /\ \/ /\ uploads' = WriteFile(h.filename, h.form.File[1].content, uploads)
              /\ handler' = [handler EXCEPT ![r].pc = "ParseResume"]
           \/ /\ uploads' = uploads
              /\ handler' = [handler EXCEPT ![r] =
                     [h EXCEPT !.pc = "returned",
                               !.response = Returned(500, "Failed to save uploaded file")]]
        /\ UNCHANGED now
        /\ HandlerUnchanged

\* part_000 63-72: the saved file is parsed.
HandlerParseResume(r) ==
    LET h == handler[r]
        parsed == ParseResume(h.filename, ReadFile(h.filename, uploads))
    IN  /\ h.pc = "ParseResume"
        /\ handler' = [handler EXCEPT ![r] =
               IF parsed.err # ""
               THEN [h EXCEPT !.pc = "returned",
                              !.response = Returned(500, "Failed to parse resume: " \o parsed.err)]
               ELSE [h EXCEPT !.pc = "Analyze", !.resume = parsed.resume]]
        /\ UNCHANGED <<uploads, now>>
        /\ HandlerUnchanged

\* part_000 74-92: the analysis against the job description if one is given,
\* and the standalone analysis otherwise.  ParseJobDescription returns no
\* error.
AnalysisOutcomes(r, jobDescText, clock) ==
    IF jobDescText # "" /\ TrimSpace(jobDescText) # ""
    THEN {AnalyzeResume(r, parsedJD.jd[1], clock) : parsedJD \in ParseJobDescription(jobDescText)}
    ELSE {AnalyzeResumeStandalone(r, clock)}

\* part_000 74-102: the resume is analysed, the file removed, the analysis
\* returned.  ParseJobDescription returns no error.
HandlerAnalyze(r) ==
    LET h == handler[r]
    IN  /\ h.pc = "Analyze"
        /\ \E analysis \in AnalysisOutcomes(h.resume[1], h.form.job_description, DayOf(now)) :
              handler' = [handler EXCEPT ![r] =
                  [h EXCEPT !.pc = "returned", !.response = Returned(200, analysis)]]
        /\ uploads' = CleanupFile(h.filename, uploads)
        /\ UNCHANGED now
        /\ HandlerUnchanged

\* A second passes while requests are being handled.
SecondPasses ==
    /\ pc = "serving"
    /\ now < UnixTime(Jan(2025)) + MaxSeconds
    /\ \E r \in Requests : handler[r].pc # "returned"
    /\ now' = now + 1
    /\ UNCHANGED <<uploads, handler>>
    /\ HandlerUnchanged

NextHandler ==
    \/ \E r \in Requests :
           ReceiveForm(r) \/ SaveUploadedFile(r) \/ HandlerParseResume(r) \/ HandlerAnalyze(r)
    \/ SecondPasses

SpecHandler == InitHandler /\ [][NextHandler]_vars

(***************************************************************************)
(* Specification SpecExperience: the experience entries extractExperience  *)
(* reads from a text of up to MaxExpLines lines, and the years             *)
(* CalculateExperienceYears counts for them.                               *)
(***************************************************************************)
MaxExpLines == 3

\* A company, a position, and date lines: both dates parsed; a start that
\* parseDate rejects ("Sept") with a parsed end; the same without an end;
\* a parsed start with a rejected end.
ExperienceLinePool ==
    {"Acme Corp", "Engineer",
     "Jan 2020 - Jan 2022",
     "Sept 2021 - Jan 2022",
     "Sept 2021 to now",
     "June 2019 - Sept 2020"}

ExperienceTexts == {Join(lines, "\n") : lines \in SeqsUpTo(ExperienceLinePool, MaxExpLines)}

InitExperience ==
    /\ args \in [text : ExperienceTexts]
    /\ now \in NowPool
    /\ ret = NoRet
    /\ uploads = NoFiles /\ handler = NoHandlers
    /\ s1 = "" /\ s2 = "" /\ similarity = NoRat
    /\ resumeSkills = <<>> /\ jobSkills = <<>> /\ skillResult = NoSkillResult
    /\ resume = NoResume /\ jobDesc = NoJobDesc /\ result = NoResult
    /\ pc = "extractExperience"

DoExperienceYears ==
    /\ pc = "extractExperience"
    /\ LET experience == extractExperience(args.text)
       IN  ret' = [Experience |-> experience,
                   years      |-> CalculateExperienceYears([Experience |-> experience], now)]
    /\ pc' = "experienceCounted"
    /\ UNCHANGED <<uploads, handler, s1, s2, similarity, resumeSkills, jobSkills, skillResult,
                   resume, jobDesc, now, result, args>>

NextExperience == DoExperienceYears

SpecExperience == InitExperience /\ [][NextExperience]_vars

(***************************************************************************)
(* Specification SpecSkillOrder: CalculateSkillMatch on any two skill      *)
(* lists, empty and repeated entries included, with the map of resume      *)
(* skills ranged over in any order.                                        *)
(***************************************************************************)
InitSkillOrder ==
    /\ resumeSkills \in SeqsUpTo(ResumeSkillPool, MaxSkills)
    /\ jobSkills \in SeqsUpTo(JobSkillPool \cup {""}, MaxSkills)
    /\ skillResult = NoSkillResult
    /\ s1 = "" /\ s2 = "" /\ similarity = NoRat
    /\ resume = NoResume /\ jobDesc = NoJobDesc /\ now = 0 /\ result = NoResult
    /\ args = NoArgs /\ ret = NoRet
    /\ uploads = NoFiles /\ handler = NoHandlers
    /\ pc = "CalculateSkillMatch"

SkillMatchInOrder ==
    /\ pc = "CalculateSkillMatch"
    /\ \E order \in IterationOrders(resumeSetOf(resumeSkills)) :
           skillResult' = CalculateSkillMatchInOrder(order, jobSkills)
    /\ pc' = "skillsMatched"
    /\ UNCHANGED <<uploads, handler, s1, s2, similarity, resumeSkills, jobSkills,
                   resume, jobDesc, now, result, args, ret>>

NextSkillOrder == SkillMatchInOrder

SpecSkillOrder == InitSkillOrder /\ [][NextSkillOrder]_vars

(***************************************************************************)
(* Specification SpecExperienceScore: calculateExperienceScoreStandalone   *)
(* on two resumes, whose years of experience lie in every band and below   *)
(* zero.                                                                   *)
(***************************************************************************)
Job(start, end) == [StartDate |-> start, EndDate |-> <<end>>]

\* No entry; entries of -2, 0, 0.5, 2, 4, 7 and 12 years; a current job of 3
\* years; two entries that add up to -1.5 and to 6 years.
ScoredExperiencePool ==
    {<<>>,
     <<Job(Jan(2022), Jan(2020))>>,
     <<Job(Jan(2020), Jan(2020))>>,
     <<Job(Jan(2024), Jan(2024) + 182)>>,
     <<Job(Jan(2020), Jan(2022))>>,
     <<Job(Jan(2020), Jan(2024))>>,
     <<Job(Jan(2013), Jan(2020))>>,
     <<Job(Jan(2008), Jan(2020))>>,
     <<[StartDate |-> Jan(2022), EndDate |-> Nil]>>,
     <<Job(Jan(2022), Jan(2020)), Job(Jan(2024), Jan(2024) + 182)>>,
     <<Job(Jan(2020), Jan(2022)), Job(Jan(2020), Jan(2024))>>}

InitExperienceScore ==
    /\ args \in [a : ScoredExperiencePool, b : ScoredExperiencePool]
    /\ now \in NowPool
    /\ ret = NoRet
    /\ uploads = NoFiles /\ handler = NoHandlers
    /\ s1 = "" /\ s2 = "" /\ similarity = NoRat
    /\ resumeSkills = <<>> /\ jobSkills = <<>> /\ skillResult = NoSkillResult
    /\ resume = NoResume /\ jobDesc = NoJobDesc /\ result = NoResult
    /\ pc = "calculateExperienceScoreStandalone"

DoExperienceScoreStandalone ==
    /\ pc = "calculateExperienceScoreStandalone"
    /\ ret' = [a |-> calculateExperienceScoreStandalone([Experience |-> args.a], now),
               b |-> calculateExperienceScoreStandalone([Experience |-> args.b], now)]
    /\ pc' = "experienceScored"
    /\ UNCHANGED <<uploads, handler, s1, s2, similarity, resumeSkills, jobSkills, skillResult,
                   resume, jobDesc, now, result, args>>

NextExperienceScore == DoExperienceScoreStandalone

SpecExperienceScore == InitExperienceScore /\ [][NextExperienceScore]_vars

(***************************************************************************)
(* Specification SpecEducationMatches: educationMatches on a degree as     *)
(* extractEducation finds it and a required degree.                        *)
(***************************************************************************)
\* What degreeRegex matches, without periods, in lower case and as written
\* in a resume.
DegreeTags ==
    {"bachelor", "master", "phd", "bs", "ms", "ba", "ma", "btech", "mtech", "mba", "diploma"}

CandidateDegrees == DegreeTags \cup {"MBA", "Diploma", "PhD"}

InitEducationMatches ==
    /\ args \in [candidateEd : CandidateDegrees, requiredEd : DegreeTags]
    /\ ret = NoRet
    /\ uploads = NoFiles /\ handler = NoHandlers
    /\ s1 = "" /\ s2 = "" /\ similarity = NoRat
    /\ resumeSkills = <<>> /\ jobSkills = <<>> /\ skillResult = NoSkillResult
    /\ resume = NoResume /\ jobDesc = NoJobDesc /\ now = 0 /\ result = NoResult
    /\ pc = "educationMatches"

DoEducationMatches ==
    /\ pc = "educationMatches"
    /\ ret' = educationMatches(args.candidateEd, args.requiredEd)
    /\ pc' = "educationMatched"
    /\ UNCHANGED <<uploads, handler, s1, s2, similarity, resumeSkills, jobSkills, skillResult,
                   resume, jobDesc, now, result, args>>

NextEducationMatches == DoEducationMatches

SpecEducationMatches == InitEducationMatches /\ [][NextEducationMatches]_vars

(***************************************************************************)
(* Reference definitions used by the properties.                           *)
(***************************************************************************)
\* Edit distance with unit-cost insertion, deletion and substitution.
RECURSIVE EditDistance(_, _)
EditDistance(a, b) ==
    IF Len(a) = 0 THEN Len(b)
    ELSE IF Len(b) = 0 THEN Len(a)
    ELSE LET ta == SubSeq(a, 2, Len(a))
             tb == SubSeq(b, 2, Len(b))
         IN  IF CharAt(a, 1) = CharAt(b, 1) THEN EditDistance(ta, tb)
             ELSE 1 + min(EditDistance(ta, b), EditDistance(a, tb), EditDistance(ta, tb))

\* 1 - distance / max(len), for strings that are not both empty.
LevenshteinSimilarity(a, b) ==
    RSub(RInt(1), Rat(EditDistance(a, b), max(Len(a), Len(b))))

InUnit(x) == RLe(RInt(0), x) /\ RLe(x, RInt(1))

\* C9: calculateStringSimilarity(s, s) is 1.0 for every string s, the empty
\* string included.
C9_SelfSimilarityIsOne ==
    (pc = "done" /\ s1 = s2) => similarity = RInt(1)

\* C10: calculateStringSimilarity(s1, s2) is 1 - editDistance/max(len) and lies
\* in [0,1], for all strings that are not both empty (0 when exactly one is).
C10_SimilarityIsNormalisedDistance ==
    (pc = "done" /\ (s1 # "" \/ s2 # "")) =>
        /\ similarity = LevenshteinSimilarity(s1, s2)
        /\ InUnit(similarity)

\* Sanity: on two non-empty strings the matrix computes the edit distance.
SimNonEmptyAgrees ==
    (pc = "done" /\ s1 # "" /\ s2 # "") =>
        /\ similarity = LevenshteinSimilarity(s1, s2)
        /\ InUnit(similarity)

\* A job skill is matched when it equals a resume skill ignoring case, or a
\* resume skill is more than 0.8 similar to it (both taken in lower case).
IsMatchedSkill(rs, j) ==
    \E k \in 1..Len(rs) :
        \/ ToLower(rs[k]) = ToLower(j)
        \/ RGt(LevenshteinSimilarity(ToLower(rs[k]), ToLower(j)), Rat(8, 10))

\* C1: CalculateSkillMatch puts a job skill in matched when it equals a resume
\* skill case-insensitively or a resume skill has Levenshtein similarity > 0.8
\* to it, and in missing otherwise; the percentage is matched/len(jobSkills)*100;
\* {python, java} against {python, go} gives 50, [python], [go].
C1_SkillMatchClassifies ==
    pc = "done" =>
        /\ skillResult.Matched = SelectSeq(jobSkills, LAMBDA j : IsMatchedSkill(resumeSkills, j))
        /\ skillResult.Missing = SelectSeq(jobSkills, LAMBDA j : ~IsMatchedSkill(resumeSkills, j))
        /\ Len(jobSkills) > 0 =>
               skillResult.Percentage = Rat(Len(skillResult.Matched) * 100, Len(jobSkills))
        /\ (resumeSkills = <<"python", "java">> /\ jobSkills = <<"python", "go">>) =>
               /\ skillResult.Percentage = RInt(50)
               /\ skillResult.Matched = <<"python">>
               /\ skillResult.Missing = <<"go">>

C1_Witness ==
    /\ pc = "done"
    /\ resumeSkills = <<"python", "java">>
    /\ jobSkills = <<"pythons", "go">>
    /\ skillResult.Matched = <<"pythons">>
    /\ skillResult.Missing = <<"go">>
    /\ skillResult.Percentage = RInt(50)

WeightedSum(skill, experience, education, format) ==
    RAdd(RAdd(RAdd(RMul(Rat(4, 10), skill), RMul(Rat(3, 10), experience)),
              RMul(Rat(2, 10), education)),
         RMul(Rat(1, 10), format))

\* C2: the Score of AnalyzeResume is 100 * (0.4 * Percentage/100 + 0.3 * experience
\* + 0.2 * education + 0.1 * format); the reported weights are 0.4, 0.3, 0.2, 0.1
\* and sum to 1; each breakdown sub-score is the sub-score on the 0-100 scale, so
\* Score is the weighted sum of the breakdown; the standalone call does the same.
C2_ScoreIsWeightedSum ==
    Analyzed =>
        LET b == result.ScoreBreakdown IN
        /\ result.Score = RMul(RInt(100),
               WeightedSum(RDiv(result.SkillMatch.Percentage, RInt(100)),
                           result.ExperienceMatch.Score,
                           result.EducationMatch.Score,
                           result.FormatScore.Score))
        /\ b.SkillWeight = Rat(4, 10) /\ b.ExperienceWeight = Rat(3, 10)
        /\ b.EducationWeight = Rat(2, 10) /\ b.FormatWeight = Rat(1, 10)
        /\ RAdd(RAdd(b.SkillWeight, b.ExperienceWeight),
                RAdd(b.EducationWeight, b.FormatWeight)) = RInt(1)
        /\ b.SkillScore = result.SkillMatch.Percentage
        /\ b.ExperienceScore = RMul(RInt(100), result.ExperienceMatch.Score)
        /\ b.EducationScore = RMul(RInt(100), result.EducationMatch.Score)
        /\ b.FormatScore = RMul(RInt(100), result.FormatScore.Score)
        /\ result.Score = RAdd(RAdd(RMul(b.SkillWeight, b.SkillScore),
                                    RMul(b.ExperienceWeight, b.ExperienceScore)),
                               RAdd(RMul(b.EducationWeight, b.EducationScore),
                                    RMul(b.FormatWeight, b.FormatScore)))

C2_Witness ==
    /\ pc = "analyzed"
    /\ result.SkillMatch.Percentage = RInt(50)
    /\ RLt(RInt(0), result.ExperienceMatch.Score)
    /\ RLt(result.ExperienceMatch.Score, RInt(1))
    /\ result.EducationMatch.Score = Rat(1, 2)
    /\ result.FormatScore.Score = Rat(6, 10)

\* C3: in every result of AnalyzeResume the overall Score and the skill
\* Percentage lie in [0,100] and the experience, education and format
\* sub-scores lie in [0,1], whatever the experience entries are.
C3_ScoresInRange ==
    pc = "analyzed" =>
        /\ RLe(RInt(0), result.Score) /\ RLe(result.Score, RInt(100))
        /\ RLe(RInt(0), result.SkillMatch.Percentage)
        /\ RLe(result.SkillMatch.Percentage, RInt(100))
        /\ InUnit(result.ExperienceMatch.Score)
        /\ InUnit(result.EducationMatch.Score)
        /\ InUnit(result.FormatScore.Score)

Degrees(r) == [k \in 1..Len(r.Education) |-> r.Education[k].Degree]

\* C4: educationMatches("B.S.", "bachelor") is true, so a resume whose only
\* degree is "B.S." has the required education, with score 1.0, for a job
\* that requires "bachelor".
C4_DottedAbbreviationMatches ==
    (pc = "analyzed" /\ Degrees(resume) = <<"B.S.">> /\ jobDesc.Education = <<"bachelor">>) =>
        /\ educationMatches("B.S.", "bachelor")
        /\ result.EducationMatch.HasRequiredEducation
        /\ result.EducationMatch.Score = RInt(1)

\* C5: with MinExperience = 0 the experience sub-score of AnalyzeResume is
\* exactly 1.0, whatever the candidate's years are.
C5_NoRequirementScoresOne ==
    (pc = "analyzed" /\ jobDesc.MinExperience = 0) => result.ExperienceMatch.Score = RInt(1)

C5_Witness ==
    /\ pc = "analyzed"
    /\ jobDesc.MinExperience = 0
    /\ RLt(result.ExperienceMatch.YearsCandidate, RInt(0))
    /\ result.ExperienceMatch.Score = RInt(1)

NoJobSkills(jd) == Len(jd.RequiredSkills) = 0 /\ Len(jd.PreferredSkills) = 0

\* C6: when the job description lists no required and no preferred skill, the
\* skill component does not lower the overall score (it counts in full, as the
\* experience and education components do without a requirement) and the
\* low-skill-match suggestion is not given.
C6_NoJobSkillsIsNoRequirement ==
    (pc = "analyzed" /\ NoJobSkills(jobDesc)) =>
        /\ result.Score = RMul(RInt(100),
               WeightedSum(RInt(1), result.ExperienceMatch.Score,
                           result.EducationMatch.Score, result.FormatScore.Score))
        /\ MsgLowSkill \notin SeqToSet(result.Suggestions)

IsScenarioC7 ==
    /\ resume.PersonalInfo.Email = "john@example.com"
    /\ resume.Skills = <<"python">>
    /\ resume.Education = <<[Degree |-> "Bachelor", Year |-> 2020]>>
    /\ resume.Experience = <<>>
    /\ jobDesc.RequiredSkills = <<"python", "go">>
    /\ jobDesc.PreferredSkills = <<>>
    /\ jobDesc.MinExperience = 2
    /\ jobDesc.Education = <<"bachelor">>

\* C7: a resume with an email, the skill python, one Bachelor (2020) entry and
\* no experience, against a job requiring python and go, 2 years and a
\* bachelor: skill percentage 50, required education present, experience
\* requirement not met with 0 candidate years, and Score
\* 100 * (0.4*0.5 + 0.3*0 + 0.2*1.0 + 0.1*format), which is 48 when the
\* missing phone number is the only format issue.
C7_EndToEndScenario ==
    (pc = "analyzed" /\ IsScenarioC7) =>
        /\ result.SkillMatch.Percentage = RInt(50)
        /\ result.EducationMatch.HasRequiredEducation
        /\ ~result.ExperienceMatch.MeetsRequirement
        /\ result.ExperienceMatch.YearsCandidate = RInt(0)
        /\ result.Score = RMul(RInt(100),
               WeightedSum(Rat(1, 2), RInt(0), RInt(1), result.FormatScore.Score))
        /\ result.FormatScore.Issues = <<"Missing phone number">> => result.Score = RInt(48)

C7_Witness ==
    /\ pc = "analyzed"
    /\ IsScenarioC7
    /\ result.FormatScore.Issues = <<"Missing phone number">>
    /\ result.Score = RInt(48)

IsEmptyResume(r) == Len(r.Skills) = 0 /\ Len(r.Experience) = 0 /\ Len(r.Education) = 0

\* C8 as stated: AnalyzeResumeStandalone on a resume without skills,
\* experience and education gives overall score 0.
C8_EmptyResumeScoresZero ==
    (pc = "analyzedStandalone" /\ IsEmptyResume(resume)) => result.Score = RInt(0)

\* C8 amended: on such a resume the skill and experience sub-scores are 0, the
\* education sub-score is 0.3, and the overall score is
\* 100 * (0.2*0.3 + 0.1*format), which lies between 9 and 12 and is never 0.
C8_EmptyResumeScore ==
    (pc = "analyzedStandalone" /\ IsEmptyResume(resume)) =>
        /\ result.ScoreBreakdown.SkillScore = RInt(0)
        /\ result.ExperienceMatch.Score = RInt(0)
        /\ result.EducationMatch.Score = Rat(3, 10)
        /\ result.Score = RMul(RInt(100),
               RAdd(RMul(Rat(2, 10), Rat(3, 10)), RMul(Rat(1, 10), result.FormatScore.Score)))
        /\ RLe(RInt(9), result.Score) /\ RLe(result.Score, RInt(12))

C8_Witness ==
    /\ pc = "analyzedStandalone"
    /\ IsEmptyResume(resume)
    /\ result.FormatScore.Score = Rat(6, 10)
    /\ result.Score = RInt(12)

\* C11: with no job skills CalculateSkillMatch returns percentage 0 and empty
\* matched and missing lists; CalculateCosineSimilarity returns 0 as soon as
\* one of the two texts yields no token, which is the case of an empty text,
\* of a text of stop words only and of a text whose words have length <= 2.
C11_EmptyInputsGiveZero ==
    /\ (pc = "done" /\ jobSkills = <<>>) =>
          /\ skillResult.Percentage = RInt(0)
          /\ skillResult.Matched = <<>>
          /\ skillResult.Missing = <<>>
    /\ pc = "cosineDone" =>
          /\ (Tokenize(args.text1) = <<>> \/ Tokenize(args.text2) = <<>>) => ret = SqrtOf(RInt(0))
          /\ (args.text1 \in NoTokenTexts \/ args.text2 \in NoTokenTexts) => ret = SqrtOf(RInt(0))
          /\ (args.text1 \in TokenTexts /\ args.text2 \in TokenTexts) => ret.sqrtOf[2] # 0

C11_Witness ==
    /\ pc = "cosineDone"
    /\ args.text1 \in TokenTexts
    /\ args.text2 \in StopWordTexts
    /\ ret = SqrtOf(RInt(0))

C11_WitnessSkill ==
    /\ pc = "done" /\ jobSkills = <<>> /\ resumeSkills # <<>>
    /\ skillResult.Percentage = RInt(0)

\* C12: two calls of AnalyzeResume (or of AnalyzeResumeStandalone) with equal
\* arguments return equal results whatever the time between them, also for
\* a resume holding an experience entry without end date.
C12_SameArgumentsSameResult == AnalyzedAgain => ret = result

HasOpenEndedExperience(r) == \E k \in 1..Len(r.Experience) : r.Experience[k].EndDate = Nil

\* C12 as the code has it: the two results are equal when the clock reads
\* the same at both calls, or when every experience entry has an end date.
C12_SameResultUnlessOpenEnded ==
    AnalyzedAgain =>
        /\ now \in NowPool => ret = result
        /\ ~HasOpenEndedExperience(resume) => ret = result

C12_Witness ==
    /\ AnalyzedAgain
    /\ now \in LaterNowPool
    /\ resume.Experience # <<>>
    /\ ~HasOpenEndedExperience(resume)
    /\ ret = result

C12_WitnessDiffers ==
    /\ AnalyzedAgain
    /\ HasOpenEndedExperience(resume)
    /\ ret.Score # result.Score
\* The file name ends in the extension e, whatever the case of its letters.
HasExtension(filename, e) ==
    /\ Len(filename) >= Len(e)
    /\ ToLower(SubSeq(filename, Len(filename) - Len(e) + 1, Len(filename))) = e

EmptyResume ==
    [PersonalInfo   |-> [Name |-> "", Email |-> "", Phone |-> "", Address |-> ""],
     Education      |-> <<>>,
     Experience     |-> <<>>,
     Skills         |-> <<>>,
     Projects       |-> <<>>,
     Certifications |-> <<>>,
     RawText        |-> "",
     FormatIssues   |-> <<>>]

EmptyJobDescription ==
    [Title |-> "", Company |-> "", RequiredSkills |-> <<>>, PreferredSkills |-> <<>>,
     MinExperience |-> 0, Education |-> <<>>, Location |-> "", Description |-> "",
     Keywords |-> <<>>, RawText |-> ""]

\* C13: ParseResume returns an error exactly when the file name ends neither
\* in .pdf nor in .docx (in any case) or the document cannot be opened, and
\* then no resume; otherwise it returns a resume and no error, with default
\* fields for a document without text.  ParseJobDescription returns a job
\* description and no error for every text, the empty one included.
C13_ParseFailsOnlyOnFormatOrExtraction ==
    /\ pc = "parsed" =>
          /\ ret.err # "" <=>
                \/ ~(HasExtension(args.filename, ".pdf") \/ HasExtension(args.filename, ".docx"))
                \/ args.file.openError
          /\ ret.err # "" => ret.resume = <<>>
          /\ ret.err = "" => Len(ret.resume) = 1
          /\ (ret.err = "" /\ \A k \in 1..Len(args.file.pages) : args.file.pages[k] = <<>>)
                => ret.resume[1] = EmptyResume
    /\ pc = "parsedJD" =>
          /\ ret.err = ""
          /\ Len(ret.jd) = 1
          /\ ret.jd[1].RawText = args.text
          /\ args.text = "" => ret.jd[1] = EmptyJobDescription

C13_Witness ==
    /\ pc = "parsed"
    /\ args.filename = "CV.PDF"
    /\ ret.err = ""
    /\ ret.resume[1].PersonalInfo.Name = "John Doe"

C13_WitnessGarbage ==
    /\ pc = "parsed"
    /\ ret.err = ""
    /\ ret.resume[1].RawText = "@@ ((\t~ 12\n"
    /\ ret.resume[1].Skills = <<>>
\* The distinct tokens of a text by decreasing raw frequency, tokens of
\* equal frequency in the order of their first occurrence.
StableRanking(text) ==
    LET tokens == Tokenize(text)
        terms == SeqToSet(tokens)
        freq(t) == Cardinality({k \in 1..Len(tokens) : tokens[k] = t})
        first(t) == CHOOSE k \in 1..Len(tokens) : tokens[k] = t /\ \A j \in 1..(k - 1) : tokens[j] # t
        before(u, t) == freq(u) > freq(t) \/ (freq(u) = freq(t) /\ first(u) < first(t))
    IN  [k \in 1..Cardinality(terms) |->
            CHOOSE t \in terms : Cardinality({u \in terms : before(u, t)}) = k - 1]

\* C14: ExtractKeywords(text, topK) returns the first min(topK, number of
\* distinct tokens) terms of the ranking by non-increasing raw frequency in
\* which terms of equal frequency keep the order of their first occurrence;
\* every call on the same text and topK returns that same list.
C14_KeywordsInStableOrder ==
    pc = "extracted" =>
        LET ranking == StableRanking(args.text)
            n == IF args.topK < Len(ranking) THEN args.topK ELSE Len(ranking)
        IN  ret = SubSeq(ranking, 1, n)

\* What every returned list does satisfy: its length, distinct terms, and
\* non-increasing frequency.
KeywordsSortedByFrequency ==
    pc = "extracted" =>
        LET tokens == Tokenize(args.text)
            freq(t) == Cardinality({k \in 1..Len(tokens) : tokens[k] = t})
            distinct == Cardinality(SeqToSet(tokens))
        IN  /\ Len(ret) = IF args.topK < distinct THEN args.topK ELSE distinct
            /\ \A i, j \in 1..Len(ret) : i < j => ret[i] # ret[j] /\ freq(ret[i]) >= freq(ret[j])
            /\ \A i \in 1..Len(ret) : \A t \in SeqToSet(tokens) \ SeqToSet(ret) : freq(ret[i]) >= freq(t)
\* C15: RemoveDuplicates is idempotent, and its result is made of the
\* trimmed entries of its argument in the order of their first occurrence:
\* no two entries are equal, none is empty or has surrounding whitespace,
\* and every non-blank entry of the argument is represented.
C15_RemoveDuplicatesIdempotent ==
    pc = "deduplicated" =>
        LET slice == args.slice
            firstAt(t) == CHOOSE k \in 1..Len(slice) :
                              TrimSpace(slice[k]) = t /\ \A j \in 1..(k - 1) : TrimSpace(slice[j]) # t
        IN  /\ RemoveDuplicates(ret) = ret
            /\ \A i, j \in 1..Len(ret) : i # j => ret[i] # ret[j]
            /\ \A i \in 1..Len(ret) : ret[i] # "" /\ TrimSpace(ret[i]) = ret[i]
            /\ SeqToSet(ret) = {TrimSpace(slice[k]) : k \in 1..Len(slice)} \ {""}
            /\ \A i, j \in 1..Len(ret) : i < j => firstAt(ret[i]) < firstAt(ret[j])

C15_Witness ==
    /\ pc = "deduplicated"
    /\ args.slice = <<" go", "", "go\t">>
    /\ ret = <<"go">>
\* Some degree of the resume satisfies educationMatches with some required
\* degree of the job description.
SomeDegreeMatches(r, jd) ==
    \E i \in 1..Len(r.Education), j \in 1..Len(jd.Education) :
        educationMatches(r.Education[i].Degree, jd.Education[j])

\* C16: without education requirement the education result is 1.0 / true;
\* with one it is 1.0 / true if and only if some (resume degree, required
\* degree) pair satisfies educationMatches, 0.5 / false if none does but the
\* resume has an education entry, and 0.0 / false if it has none.
C16_EducationMatchCases ==
    pc = "analyzed" =>
        LET em == result.EducationMatch
        IN  /\ jobDesc.Education = <<>> => em.Score = RInt(1) /\ em.HasRequiredEducation
            /\ jobDesc.Education # <<>> =>
                  /\ (em.Score = RInt(1) /\ em.HasRequiredEducation) <=> SomeDegreeMatches(resume, jobDesc)
                  /\ (~SomeDegreeMatches(resume, jobDesc) /\ resume.Education # <<>>)
                        => em.Score = Rat(1, 2) /\ ~em.HasRequiredEducation
                  /\ resume.Education = <<>> => em.Score = RInt(0) /\ ~em.HasRequiredEducation

C16_Witness ==
    /\ pc = "analyzed"
    /\ jobDesc.Education # <<>>
    /\ resume.Education # <<>>
    /\ ~SomeDegreeMatches(resume, jobDesc)
    /\ result.EducationMatch.Score = Rat(1, 2)

C16_WitnessMatch ==
    /\ pc = "analyzed"
    /\ jobDesc.Education # <<>>
    /\ SomeDegreeMatches(resume, jobDesc)
    /\ result.EducationMatch.Score = RInt(1)
IssueTooLong == "Resume may be too long (consider condensing)"

\* The engine's issues other than the length issue, in the documented order.
ContentIssues(r) ==
    (IF r.PersonalInfo.Email = "" THEN <<"Missing email address">> ELSE <<>>)
    \o (IF r.PersonalInfo.Phone = "" THEN <<"Missing phone number">> ELSE <<>>)
    \o (IF r.Experience = <<>> /\ r.Education = <<>>
        THEN <<"Missing key sections (experience or education)">> ELSE <<>>)
    \o (IF r.Skills = <<>> THEN <<"No skills section identified">> ELSE <<>>)

\* max(0.3, 1.0 - 0.2 n)
FormatScoreFor(n) ==
    LET linear == Rat(10 - 2 * n, 10)
    IN  IF RLt(linear, Rat(3, 10)) THEN Rat(3, 10) ELSE linear

\* C17: the format score is max(0.3, 1.0 - 0.2 n) and IsATSFriendly is n <= 1,
\* n being the length of the issue list; the list is the resume's
\* FormatIssues followed by the engine's issues in the order missing email,
\* missing phone, neither experience nor education, no skills, too long.
C17_FormatScoreFromIssueCount ==
    pc = "formatScored" =>
        LET n == Len(ret.Issues)
            listed == resume.FormatIssues \o ContentIssues(resume)
        IN  /\ ret.Score = FormatScoreFor(n)
            /\ ret.IsATSFriendly <=> n <= 1
            /\ ret.Issues \in {listed, Append(listed, IssueTooLong)}

C17_Witness ==
    /\ pc = "formatScored"
    /\ resume.FormatIssues # <<>>
    /\ Len(ret.Issues) = 6
    /\ ret.Issues[6] = IssueTooLong
    /\ ret.Score = Rat(3, 10)
    /\ ~ret.IsATSFriendly

C17_WitnessFriendly ==
    /\ pc = "formatScored"
    /\ Len(ret.Issues) = 1
    /\ ret.Score = Rat(4, 5)
    /\ ret.IsATSFriendly
\* C18: the issue "Resume may be too long" is raised exactly when the raw text
\* has more than 1000 whitespace-separated words, as CalculateWordCount
\* counts them, whatever the spacing between the words.
C18_TooLongIffOverThousandWords ==
    pc = "formatScored" =>
        (IssueTooLong \in SeqToSet(ret.Issues) <=> CalculateWordCount(resume.RawText) > TooLongWords)

\* The test the code makes: more than 1000 pieces between single spaces.
TooLongIffOverThousandPieces ==
    pc = "formatScored" =>
        (IssueTooLong \in SeqToSet(ret.Issues) <=> SplitOnSpaceCount(resume.RawText) > TooLongWords)

C18_WitnessFewWordsTooLong ==
    /\ pc = "formatScored"
    /\ CalculateWordCount(resume.RawText) <= TooLongWords
    /\ IssueTooLong \in SeqToSet(ret.Issues)

C18_WitnessManyWordsNotTooLong ==
    /\ pc = "formatScored"
    /\ CalculateWordCount(resume.RawText) > TooLongWords
    /\ IssueTooLong \notin SeqToSet(ret.Issues)
\* The first n entries of a list, or all of it when it has fewer.
AtMost(q, n) == SubSeq(q, 1, IF Len(q) < n THEN Len(q) ELSE n)

\* The advice for each issue the parser or the scorer reports; the issue
\* about missing sections has none.
AdviceFor(issue) ==
    CASE issue = IssueTables -> <<MsgTables>>
      [] issue = IssueBorders -> <<MsgTables>>
      [] issue = IssueColumns -> <<MsgColumns>>
      [] issue = "Missing email address" -> <<MsgEmail>>
      [] issue = "Missing phone number" -> <<MsgPhone>>
      [] issue = "Missing key sections (experience or education)" -> <<>>
      [] issue = "No skills section identified" -> <<MsgSkills>>
      [] issue = IssueTooLong -> <<MsgTooLong>>

RECURSIVE AdviceForAll(_)
AdviceForAll(issues) ==
    IF issues = <<>> THEN <<>> ELSE AdviceFor(Head(issues)) \o AdviceForAll(Tail(issues))

\* The skill messages: below 50 the low-match message, and the first five
\* missing skills if any is missing; from 50 to below 75 the first three.
SkillAdvice(sm) ==
    IF RLt(sm.Percentage, RInt(50))
    THEN IF sm.MissingSkills = <<>> THEN <<MsgLowSkill>>
         ELSE <<MsgLowSkill, MsgKeyMissing \o Join(AtMost(sm.MissingSkills, 5), ", ")>>
    ELSE IF RLt(sm.Percentage, RInt(75))
    THEN <<MsgGoodSkill \o Join(AtMost(sm.MissingSkills, 3), ", ")>>
    ELSE <<>>

\* C19: the suggestions of AnalyzeResume are, in this order: the skill
\* message(s) of at most one of the two skill branches (at most 5 missing
\* skills listed below 50, between 1 and 3 from 50 to below 75), the
\* experience message, the education message, one advice per format issue in
\* issue order (none for an issue without keyword, repeats kept), the tailor
\* message exactly when the returned Score is below 60, and the
\* quantification advice.
C19_SuggestionOrder ==
    pc = "analyzed" =>
        LET sm == result.SkillMatch
        IN  /\ result.Suggestions =
                   SkillAdvice(sm)
                   \o (IF ~result.ExperienceMatch.MeetsRequirement THEN <<MsgExperience>> ELSE <<>>)
                   \o (IF ~result.EducationMatch.HasRequiredEducation THEN <<MsgEducation>> ELSE <<>>)
                   \o AdviceForAll(result.FormatScore.Issues)
                   \o (IF RLt(result.Score, RInt(60)) THEN <<MsgTailor>> ELSE <<>>)
                   \o (IF \E w \in {"%", "increased", "reduced", "improved"} :
                             Contains(ToLower(resume.RawText), w)
                       THEN <<>> ELSE <<MsgQuantify>>)
            /\ (RGe(sm.Percentage, RInt(50)) /\ RLt(sm.Percentage, RInt(75)))
                   => Len(sm.MissingSkills) >= 1

C19_Witness ==
    /\ pc = "analyzed"
    /\ RLt(result.SkillMatch.Percentage, RInt(50))
    /\ Len(result.SkillMatch.MissingSkills) > 5
    /\ ~result.ExperienceMatch.MeetsRequirement
    /\ ~result.EducationMatch.HasRequiredEducation
    /\ result.FormatScore.Issues[1] = IssueTables
    /\ result.FormatScore.Issues[2] = IssueBorders
    /\ RLt(result.Score, RInt(60))
    /\ Len(result.Suggestions) >= 8

C19_WitnessGoodMatch ==
    /\ pc = "analyzed"
    /\ result.SkillMatch.Percentage = RInt(50)
    /\ Len(result.SkillMatch.MissingSkills) = 4
    /\ result.Suggestions[1] = MsgGoodSkill \o "aws, azure, gcp"
    /\ RGe(result.Score, RInt(60))
    /\ MsgTailor \notin SeqToSet(result.Suggestions)

C19_WitnessTooLong ==
    /\ pc = "analyzed"
    /\ MsgTooLong \in SeqToSet(result.Suggestions)
    /\ MsgQuantify \in SeqToSet(result.Suggestions)

\* The advice of the standalone analysis for a format issue: for the table,
\* border, column and length issues only.
StandaloneAdviceFor(issue) ==
    CASE issue \in {IssueTables, IssueBorders} -> <<MsgTables>>
      [] issue = IssueColumns -> <<MsgColumns>>
      [] issue = IssueTooLong -> <<MsgTooLong>>
      [] OTHER -> <<>>

RECURSIVE StandaloneAdviceForAll(_)
StandaloneAdviceForAll(issues) ==
    IF issues = <<>> THEN <<>>
    ELSE StandaloneAdviceFor(Head(issues)) \o StandaloneAdviceForAll(Tail(issues))

Occurrences(q, x) == Cardinality({i \in 1..Len(q) : q[i] = x})

\* The suggestions in the order of the cascade, with the experience advice
\* given under the condition experienceAdvice.
StandaloneCascade(experienceAdvice) ==
    (IF Len(resume.Skills) < 5 THEN <<MsgMoreSkills>> ELSE <<>>)
    \o (IF experienceAdvice THEN <<MsgNoExperience>> ELSE <<>>)
    \o (IF resume.Education = <<>> THEN <<MsgNoEducation>> ELSE <<>>)
    \o (IF resume.PersonalInfo.Email = "" THEN <<MsgNoEmail>> ELSE <<>>)
    \o (IF resume.PersonalInfo.Phone = "" THEN <<MsgNoPhone>> ELSE <<>>)
    \o StandaloneAdviceForAll(result.FormatScore.Issues)
    \o (IF \E w \in {"%", "increased", "reduced", "improved"} :
              Contains(ToLower(resume.RawText), w)
        THEN <<>> ELSE <<MsgQuantify>>)
    \o (IF resume.Projects = <<>> THEN <<MsgNoProjects>> ELSE <<>>)
    \o (IF resume.Certifications = <<>> THEN <<MsgNoCertifications>> ELSE <<>>)

ContactAdviceOnce ==
    /\ Occurrences(result.Suggestions, MsgNoEmail)
           = (IF resume.PersonalInfo.Email = "" THEN 1 ELSE 0)
    /\ Occurrences(result.Suggestions, MsgNoPhone)
           = (IF resume.PersonalInfo.Phone = "" THEN 1 ELSE 0)

\* C20 as stated: the suggestions of the standalone analysis follow the
\* cascade skills<5, experience, education, email, phone, format issues,
\* quantification, projects, certifications; the experience advice is there
\* exactly when the resume has no experience entry; a missing email or phone
\* gives exactly one suggestion each.
C20_ExperienceAdviceIffNoExperience ==
    pc = "analyzedStandalone" =>
        /\ result.Suggestions = StandaloneCascade(resume.Experience = <<>>)
        /\ ContactAdviceOnce

\* C20 amended: the same cascade, with the experience advice exactly when
\* the years of experience of the resume add up to less than one, which
\* a resume without experience entries is one case of.
C20_ExperienceAdviceIffUnderOneYear ==
    pc = "analyzedStandalone" =>
        /\ result.Suggestions
               = StandaloneCascade(RLt(result.ExperienceMatch.YearsCandidate, RInt(1)))
        /\ ContactAdviceOnce
        /\ resume.Experience = <<>> => Occurrences(result.Suggestions, MsgNoExperience) = 1

\* A resume with a job of half a year, no email and no phone, and two table
\* issues: the experience advice is given although there is an entry.
C20_Witness ==
    /\ pc = "analyzedStandalone"
    /\ resume.Experience # <<>>
    /\ Occurrences(result.Suggestions, MsgNoExperience) = 1
    /\ RGt(result.ExperienceMatch.YearsCandidate, RInt(0))
    /\ resume.PersonalInfo.Email = "" /\ resume.PersonalInfo.Phone = ""
    /\ Occurrences(result.Suggestions, MsgTables) = 2
    /\ Len(resume.Skills) >= 5

C20_WitnessNoExperience ==
    /\ pc = "analyzedStandalone"
    /\ resume.Experience = <<>>
    /\ Len(result.Suggestions) = 9
    /\ result.Suggestions[Len(result.Suggestions) - 3] = MsgTooLong

REq(a, b) == RLe(a, b) /\ RGe(a, b)

RMin(a, b) == IF RLt(a, b) THEN a ELSE b

\* C21: the standalone analysis reports a skill percentage of 0 without
\* skills and of 100 * (0.3 + min(0.7, n/20)) with n > 0 skills, all n skills
\* as matched, none as missing, TotalRequired = TotalMatched = n, and for
\* every resume YearsRequired = 0 and MeetsRequirement = true.
C21_StandaloneSkillAndExperienceReport ==
    pc = "analyzedStandalone" =>
        LET n  == Len(resume.Skills)
            sm == result.SkillMatch
        IN  /\ REq(sm.Percentage,
                   IF n = 0 THEN RInt(0)
                   ELSE RMul(RInt(100), RAdd(Rat(3, 10), RMin(Rat(7, 10), Rat(n, 20)))))
            /\ sm.MatchedSkills = resume.Skills
            /\ sm.MissingSkills = <<>>
            /\ sm.TotalRequired = n /\ sm.TotalMatched = n
            /\ result.ExperienceMatch.YearsRequired = 0
            /\ result.ExperienceMatch.MeetsRequirement = TRUE

\* Sixteen skills, where the bonus is cut to 0.7, on a resume whose years of
\* experience are negative.
C21_Witness ==
    /\ pc = "analyzedStandalone"
    /\ Len(resume.Skills) = 16
    /\ REq(result.SkillMatch.Percentage, RInt(100))
    /\ RLt(result.ExperienceMatch.YearsCandidate, RInt(0))
    /\ result.ExperienceMatch.MeetsRequirement

C21_WitnessFiveSkills ==
    /\ pc = "analyzedStandalone"
    /\ Len(resume.Skills) = 5
    /\ REq(result.SkillMatch.Percentage, RInt(55))
    /\ result.SkillMatch.TotalMatched = 5

\* A line whose trimmed text has between lo and hi characters, no "@", no
\* phone number in it, and letters, white space and periods only.
NameLike(line, lo, hi) ==
    LET t == TrimSpace(line)
    IN  /\ Len(t) >= lo /\ Len(t) <= hi
        /\ ~Contains(t, "@")
        /\ ~MatchString(phoneRegex, t)
        /\ \A k \in 1..Len(t) : CharAt(t, k) \in LetterSet \cup ReSpace \cup {"."}

\* The trimmed first name-like line among the first six lines, or "".
FirstNameLike(text, lo, hi) ==
    LET lines == Split(text, "\n")
        C     == {i \in 1..Len(lines) : i <= 6 /\ NameLike(lines[i], lo, hi)}
    IN  IF C = {} THEN ""
        ELSE TrimSpace(lines[CHOOSE i \in C : \A j \in C : i <= j])

\* C22: the name is the first of the first six lines that has 2 to 50
\* characters after trimming, no "@", no phone number, and only letters,
\* spaces and periods; it is empty when there is no such line.
C22_NameIsFirstLineOfTwoToFifty ==
    pc = "personalInfoExtracted" => ret.Name = FirstNameLike(args.text, 2, 50)

\* The same with the lengths the code accepts, 3 to 49.
NameIsFirstLineOfThreeToFortyNine ==
    pc = "personalInfoExtracted" => ret.Name = FirstNameLike(args.text, 3, 49)

\* A two-letter line before a longer name: the longer name is taken.
C22_WitnessTwoLetters ==
    /\ pc = "personalInfoExtracted"
    /\ args.text = "Al\nBob"
    /\ ret.Name = "Bob"

\* A line of 50 letters alone gives no name.
C22_WitnessFiftyLetters ==
    /\ pc = "personalInfoExtracted"
    /\ args.text = Repeat("b", 50)
    /\ ret.Name = ""

\* The sixth line is still looked at, the seventh is not.
C22_WitnessSixthLine ==
    /\ pc = "personalInfoExtracted"
    /\ args.text = Repeat("2024\n", 5) \o "Eve Adams"
    /\ ret.Name = "Eve Adams"

C22_WitnessSeventhLine ==
    /\ pc = "personalInfoExtracted"
    /\ args.text = Repeat("2024\n", 6) \o "Eve Adams"
    /\ ret.Name = ""

\* A line that names a project heading: "project" in any case, anywhere.
HasProjectWord(line) == Contains(ToLower(line), "project")

RECURSIVE LongLinesAsProjects(_, _)
\* The projects made of the lines of q, in order, whose trimmed text is
\* longer than 10 characters.
LongLinesAsProjects(q, k) ==
    IF k > Len(q) THEN <<>>
    ELSE (IF Len(TrimSpace(q[k])) > 10
          THEN <<[Name |-> TrimSpace(q[k]), Description |-> TrimSpace(q[k]),
                  Technologies |-> <<>>]>>
          ELSE <<>>) \o LongLinesAsProjects(q, k + 1)

\* The projects read from the window lines that follow the first heading.
ProjectsAfterHeading(text, window) ==
    LET lines == Split(text, "\n")
        H     == {i \in 1..Len(lines) : HasProjectWord(lines[i])}
    IN  IF H = {} THEN <<>>
        ELSE LET h    == CHOOSE i \in H : \A j \in H : i <= j
                 last == IF h + window < Len(lines) THEN h + window ELSE Len(lines)
             IN  LongLinesAsProjects(SubSeq(lines, h + 1, last), 1)

\* C23: the projects are the lines longer than 10 characters, trimmed, among
\* the 10 lines after the first line with the project keyword, in line
\* order, each as Name and as Description; nothing without such a line.
C23_ProjectsFromNextTenLines ==
    pc = "projectsExtracted" => ret = ProjectsAfterHeading(args.text, 10)

\* The same with the nine lines the loop visits.
ProjectsFromNextNineLines ==
    pc = "projectsExtracted" => ret = ProjectsAfterHeading(args.text, 9)

\* A heading followed by ten long lines gives nine projects.
C23_WitnessTenLines ==
    /\ pc = "projectsExtracted"
    /\ args.text = Join(<<"Projects">> \o [k \in 1..10 |-> BodyLine(k, FALSE)], "\n")
    /\ Len(ret) = 9

C23_WitnessNoHeading ==
    /\ pc = "projectsExtracted"
    /\ ~HasProjectWord(args.text)
    /\ Len(Split(args.text, "\n")) > 5
    /\ ret = <<>>

InFlight(r) == handler[r].pc \in {"SaveUploadedFile", "ParseResume", "Analyze"}
Saved(r) == handler[r].pc \in {"ParseResume", "Analyze"}

\* C24: when the handler returns after it has saved the uploaded file, the
\* file is no longer in uploads/, whether the analysis succeeded or the
\* parsing of the resume or of the job description failed.
C24_SavedFileRemovedOnReturn ==
    [][\A r \in Requests :
           (Saved(r) /\ handler'[r].pc = "returned")
               => handler[r].filename \notin DOMAIN uploads']_vars

\* The same for the requests that are answered with the analysis.
SavedFileRemovedOnSuccess ==
    [][\A r \in Requests :
           (Saved(r) /\ handler'[r].pc = "returned" /\ handler'[r].response.status = 200)
               => handler[r].filename \notin DOMAIN uploads']_vars

\* A request was answered "Failed to parse resume" and its file is still
\* there, with no request left that could remove it.
C24_WitnessLeftBehind ==
    /\ pc = "serving"
    /\ \A r \in Requests : handler[r].pc = "returned"
    /\ \E r \in Requests :
           /\ handler[r].response.status = 500
           /\ handler[r].filename \in DOMAIN uploads

\* C25: two requests being handled never have the same temporary path, and
\* the file a request has saved and is about to parse is there with the
\* content that request saved.
C25_ConcurrentRequestsUseDistinctPaths ==
    pc = "serving" =>
        /\ \A q, r \in Requests :
               (q # r /\ InFlight(q) /\ InFlight(r)) => handler[q].filename # handler[r].filename
        /\ \A r \in Requests :
               handler[r].pc = "ParseResume"
                   => /\ handler[r].filename \in DOMAIN uploads
                      /\ uploads[handler[r].filename] = handler[r].form.File[1].content

\* Requests whose paths differ do not disturb each other's file.
DistinctPathsKeepFiles ==
    pc = "serving" =>
        \A r \in Requests :
            (handler[r].pc = "ParseResume"
                /\ \A q \in Requests \ {r} : handler[q].filename # handler[r].filename)
                => /\ handler[r].filename \in DOMAIN uploads
                   /\ uploads[handler[r].filename] = handler[r].form.File[1].content

\* A request with a readable file is answered "Failed to parse resume",
\* because the other request wrote or removed the file at the same path.
C25_WitnessDisturbed ==
    /\ pc = "serving"
    /\ \E r \in Requests :
           /\ handler[r].pc = "returned"
           /\ handler[r].form.File # <<>>
           /\ handler[r].form.File[1].content = GoodContent
           /\ handler[r].response.status = 500
           /\ handler[r].response.body # "Failed to save uploaded file"

HasParsedStart(exp) == exp.StartDate # ZeroTime

\* The years between start and end-or-clock of the entries with a parsed
\* start date, a year being 365.25 days.
RECURSIVE ParsedYears(_, _)
ParsedYears(experience, clock) ==
    IF experience = <<>> THEN RInt(0)
    ELSE LET exp == Head(experience)
             end == IF exp.EndDate # Nil THEN exp.EndDate[1] ELSE clock
         IN  RAdd(IF HasParsedStart(exp) THEN Rat((end - exp.StartDate) * 4, 1461) ELSE RInt(0),
                  ParsedYears(Tail(experience), clock))

\* C26: the years of experience are the years of the entries whose start
\* date was parsed; an entry whose start date was not parsed adds nothing.
C26_UnparsedStartAddsNothing ==
    pc = "experienceCounted" => REq(ret.years, ParsedYears(ret.Experience, now))

\* The same on the texts all of whose entries have a parsed start date.
ParsedStartsAddTheirSpan ==
    (pc = "experienceCounted" /\ \A k \in 1..Len(ret.Experience) : HasParsedStart(ret.Experience[k]))
        => REq(ret.years, ParsedYears(ret.Experience, now))

\* An entry with an unparsed start and a parsed end, counted with more than
\* 292 years.
C26_WitnessUnparsedStart ==
    /\ pc = "experienceCounted"
    /\ Len(ret.Experience) = 1
    /\ ~HasParsedStart(ret.Experience[1])
    /\ ret.Experience[1].EndDate # Nil
    /\ RGt(ret.years, RInt(292))

C26_WitnessParsed ==
    /\ pc = "experienceCounted"
    /\ Len(ret.Experience) = 2
    /\ \A k \in 1..2 : HasParsedStart(ret.Experience[k])
    /\ RGt(ret.years, RInt(2))

SuggestsExperience == \E k \in 1..Len(result.Suggestions) : result.Suggestions[k] = MsgExperience

\* C27: against a job description without experience requirement the
\* analysis reports that the requirement is met and does not give the
\* experience suggestion; and whenever the experience sub-score is 1.0 the
\* requirement is reported as met.
C27_NoRequirementIsMet ==
    pc = "analyzed" =>
        /\ jobDesc.MinExperience = 0
               => (result.ExperienceMatch.MeetsRequirement /\ ~SuggestsExperience)
        /\ REq(result.ExperienceMatch.Score, RInt(1)) => result.ExperienceMatch.MeetsRequirement

\* The same for the resumes whose years of experience are not negative.
NoRequirementIsMetUnlessNegative ==
    (pc = "analyzed" /\ RGe(result.ExperienceMatch.YearsCandidate, RInt(0))) =>
        /\ jobDesc.MinExperience = 0
               => (result.ExperienceMatch.MeetsRequirement /\ ~SuggestsExperience)
        /\ REq(result.ExperienceMatch.Score, RInt(1)) => result.ExperienceMatch.MeetsRequirement

\* No requirement, negative years: score 1.0, requirement reported as not
\* met, experience suggestion given.
C27_WitnessNegativeYears ==
    /\ pc = "analyzed"
    /\ jobDesc.MinExperience = 0
    /\ RLt(result.ExperienceMatch.YearsCandidate, RInt(0))
    /\ REq(result.ExperienceMatch.Score, RInt(1))
    /\ ~result.ExperienceMatch.MeetsRequirement
    /\ SuggestsExperience

\* C28: each job skill is in exactly one of matched and missing, both in
\* job-skill order, so the two lengths add up to the number of job skills
\* and matched is not longer than the job list; the percentage is between
\* 0 and 100, and 100 exactly when nothing is missing of a non-empty job
\* list; and every iteration order of the resume-skill map gives this result.
C28_SkillMatchPartitionsJobSkills ==
    pc = "skillsMatched" =>
        LET M == SeqToSet(skillResult.Matched)
        IN  /\ skillResult.Matched = SelectSeq(jobSkills, LAMBDA j : j \in M)
            /\ skillResult.Missing = SelectSeq(jobSkills, LAMBDA j : j \notin M)
            /\ Len(skillResult.Matched) + Len(skillResult.Missing) = Len(jobSkills)
            /\ Len(skillResult.Matched) <= Len(jobSkills)
            /\ RGe(skillResult.Percentage, RInt(0)) /\ RLe(skillResult.Percentage, RInt(100))
            /\ jobSkills # <<>> =>
                   (REq(skillResult.Percentage, RInt(100)) <=> skillResult.Missing = <<>>)
            /\ \A order \in IterationOrders(resumeSetOf(resumeSkills)) :
                   CalculateSkillMatchInOrder(order, jobSkills) = skillResult
            /\ CalculateSkillMatch(resumeSkills, jobSkills) = skillResult

\* Two resume skills are similar to the job skill "pythons", which is
\* matched once; the other job skill is missing.
C28_Witness ==
    /\ pc = "skillsMatched"
    /\ resumeSetOf(resumeSkills) = {"python", ""}
    /\ jobSkills = <<"pythons", "">>
    /\ skillResult.Matched = <<"pythons", "">>
    /\ skillResult.Missing = <<>>

C28_WitnessRepeated ==
    /\ pc = "skillsMatched"
    /\ resumeSkills = <<"java", "javas">>
    /\ jobSkills = <<"go", "go">>
    /\ skillResult.Missing = <<"go", "go">>
    /\ REq(skillResult.Percentage, RInt(0))

YearsOf(experience) == CalculateExperienceYears([Experience |-> experience], now)

\* C29: of two resumes the one with more years of experience in total does
\* not get the lower standalone experience sub-score, negative totals
\* included.
C29_StandaloneExperienceScoreMonotone ==
    pc = "experienceScored" =>
        (RLe(YearsOf(args.a), YearsOf(args.b)) => RLe(ret.a, ret.b))

\* The same for two resumes whose totals are not negative.
MonotoneFromZero ==
    (pc = "experienceScored" /\ RGe(YearsOf(args.a), RInt(0)))
        => (RLe(YearsOf(args.a), YearsOf(args.b)) => RLe(ret.a, ret.b))

\* A total below minus two years scores 0.2, no experience scores 0.
C29_WitnessNegativeAboveZero ==
    /\ pc = "experienceScored"
    /\ RLt(YearsOf(args.a), RInt(-2)) /\ args.b = <<>>
    /\ REq(ret.a, Rat(2, 10)) /\ REq(ret.b, RInt(0))

C29_WitnessBands ==
    /\ pc = "experienceScored"
    /\ REq(YearsOf(args.a), RInt(4)) /\ REq(YearsOf(args.b), RInt(12))
    /\ REq(ret.a, Rat(7, 10)) /\ REq(ret.b, RInt(1))

\* The level a degree tag stands for.
LevelOf(tag) ==
    CASE ToLower(tag) \in {"bachelor", "bs", "ba", "btech"} -> "bachelor"
      [] ToLower(tag) \in {"master", "ms", "ma", "mtech", "mba"} -> "master"
      [] ToLower(tag) = "phd" -> "phd"
      [] ToLower(tag) = "diploma" -> "diploma"

\* The classes of the alias table a tag falls in: it contains the name of
\* the class or one of its aliases.
ClassesOf(tag) ==
    {degree \in DOMAIN equivalents :
        \/ Contains(ToLower(tag), degree)
        \/ \E k \in 1..Len(equivalents[degree]) : Contains(ToLower(tag), equivalents[degree][k])}

\* C30: every degree tag falls in at most one of the classes bachelor,
\* master, phd, and educationMatches holds only of two degrees of the same
\* level: not of "mba" and "bachelor", not of "diploma" and "master".
C30_MatchesOnlySameLevel ==
    pc = "educationMatched" =>
        /\ Cardinality(ClassesOf(args.candidateEd)) <= 1
        /\ ret => LevelOf(args.candidateEd) = LevelOf(args.requiredEd)

\* Two degree tags of the same level match.
SameLevelMatches ==
    (pc = "educationMatched" /\ LevelOf(args.candidateEd) = LevelOf(args.requiredEd)) => ret

\* "mba" falls in the classes bachelor and master and matches "bachelor".
C30_WitnessMba ==
    /\ pc = "educationMatched"
    /\ args.candidateEd = "mba" /\ args.requiredEd = "bachelor"
    /\ ClassesOf("mba") = {"bachelor", "master"}
    /\ ret

C30_WitnessDiploma ==
    /\ pc = "educationMatched"
    /\ args.candidateEd = "diploma" /\ args.requiredEd = "master"
    /\ ret

====
